---- MODULE Spec2Model ----
(***************************************************************************)
(* Patch-compliance engine of "SSM Patch Notification Automation":         *)
(*   get_patch_status_counts  (Status Aggregator)                          *)
(*   get_target_count         (Target Resolver)                            *)
(*   runs_today               (Window Scheduler Filter)                    *)
(*   post_patch_function loop (Session Cache)                              *)
(* The remote management API is the environment: what a call returns is    *)
(* chosen when the call is made.                                           *)
(***************************************************************************)
EXTENDS Integers, Sequences, FiniteSets, TLC

(***************************************************************************)
(* Bounds of the model.                                                    *)
(***************************************************************************)
MaxExecs == 11          \* executions in a window's remote history
MaxShortHistory == 2    \* histories up to this length take every start-time assignment
MaxTime == 2            \* distinct start times 1..MaxTime
MaxTasks == 2           \* tasks returned for one execution
MaxPages == 2           \* pages of one paginated listing
MaxInvocations == 2     \* task invocations returned in one call of the aggregator
MaxHostResults == 2     \* per-host items (command results, group members,
                        \* instances) returned in one call
MaxRules == 2           \* rules of the groupings of one response
TargetsPageSize == 2    \* groupings the service returns in one response
TicksPerHour == 2       \* ticks of the clock in one hour
HoursPerDay == 2        \* hours in one day
MaxDays == 2            \* days 0..MaxDays are told apart
MaxRows == 3            \* staged rows the post-run loop reads
MaxAccounts == 2        \* rows of accounts.csv
MaxWindows == 2         \* windows in one response of describe_maintenance_windows

(***************************************************************************)
(* Program constants.                                                      *)
(***************************************************************************)
MaxResults == 10        \* MaxResults=10 of describe_maintenance_window_executions

None == "<None>"        \* Python's None / an absent key

(***************************************************************************)
(* Strings are sequences of one-character strings, so that prefixes are    *)
(* computed, not assumed.                                                  *)
(***************************************************************************)
\* str.startswith replaced by a substring test ("mw-" in window_id).
StartsWithAnywhere(s, p) ==
    \E i \in 1..(Len(s) + 1) :
        i + Len(p) - 1 <= Len(s) /\ SubSeq(s, i, i + Len(p) - 1) = p

StartsWith(s, p) == Len(s) >= Len(p) /\ SubSeq(s, 1, Len(p)) = p

Contains(seq, x) == \E i \in 1..Len(seq) : seq[i] = x

Min(a, b) == IF a <= b THEN a ELSE b

WindowIdPrefix == <<"m", "w", "-">>

WindowIds ==
    { <<"m", "w", "-", "1">>, <<"m", "w", "-">>, <<"m", "w", "1">>,
      <<"M", "W", "-", "1">>, <<"x", "m", "w", "-">>, <<>> }

(***************************************************************************)
(* State.  Names follow the locals of the source.                          *)
(***************************************************************************)
VARIABLES
    pc,             \* position inside get_patch_status_counts
    window_id,      \* argument of get_patch_status_counts
    svcExecutions,  \* remote: start times of the window's executions, in listing order
    svcResults,     \* remote: per-host statuses the command listing returns first
    executions,     \* local list after the call and the in-place sort
    execution_id,   \* executions[0]["WindowExecutionId"]
    tasksLeft,      \* tasks of the response not yet iterated
    task,           \* TaskArn of the task being iterated
    invPages,       \* pages fetched by the task-invocation paginator of this task
    resPages,       \* pages fetched by the command-invocation paginator of this command
    nInv,           \* invocations iterated so far in this call
    nRes,           \* per-host results iterated so far in this call
    operation,      \* local "operation" of the invocation being iterated
    command_id,     \* local "command_id" of the invocation being iterated
    inst_status,    \* local "inst_status" of the result being iterated
    success,
    failure,
    inspected,      \* execution ids passed to the task and task-invocation listings
    ret,            \* returned pair, <<>> while nothing was returned
    requested,      \* remote operations requested so far in the current call
    lastRequest     \* remote operation requested by the latest step, None if none

VARIABLES
    tpc,            \* position inside get_target_count
    svcUnfetched,   \* remote: groupings of the window left on later pages
    groupsLeft,     \* groupings of the response not yet iterated
    tag_filters,    \* local "tag_filters" of the current grouping
    groupNames,     \* group names of the current resource-group rule not yet resolved
    count,          \* local "count" of the current resource group
    rgPages,        \* pages fetched by the list_group_resources paginator
    instance_ids,   \* local "instance_ids" of the current tag query
    tagPages,       \* pages fetched by the describe_instances paginator
    total,
    target_count,   \* returned total, None while nothing was returned
    nItems,         \* members and instances returned so far in this call
    nRules,         \* rules iterated so far, per kind
    explicitIds,    \* explicit host ids listed by the rules iterated so far
    rgReturned,     \* members returned by the latest resource-group listing
    tagReturned,    \* instance ids returned by the latest tag query
    rule,           \* the rule the inner loop is at, NoRule before the first
    claimed         \* what the specification's counting rule gives for the steps so far


statusVars ==
    <<pc, window_id, svcExecutions, svcResults, executions, execution_id, tasksLeft, task,
      invPages, resPages, nInv, nRes, operation, command_id, inst_status,
      success, failure, inspected, ret>>

apiVars == <<requested, lastRequest>>

targetVars ==
    <<tpc, svcUnfetched, groupsLeft, tag_filters, groupNames, count,
      rgPages, instance_ids, tagPages, total, target_count, nItems, nRules,
      explicitIds, rgReturned, tagReturned, rule, claimed>>

(***************************************************************************)
(* Remote operations the aggregator calls.                                 *)
(***************************************************************************)
StatusApis ==
    { "describe_maintenance_window_executions",
      "describe_maintenance_window_execution_tasks",
      "describe_maintenance_window_execution_task_invocations",
      "list_command_invocations" }


(***************************************************************************)
(* Remote data.                                                            *)
(***************************************************************************)
\* A history of n executions whose k-th is the only latest one (all start
\* together when k > n).
OneLate(n, k) == [i \in 1..n |-> IF i = k THEN MaxTime ELSE 1]

ShortHistories == UNION { [1..n -> 1..MaxTime] : n \in 0..MaxShortHistory }

ExecHistories ==
    ShortHistories
    \cup { OneLate(n, k) : n \in (MaxShortHistory + 1)..MaxExecs, k \in 1..MaxExecs }

\* The task name compared without regard to case.
PatchTaskArnLower == "aws-runpatchbaseline"

\* Line 313: the name of the standard patch-baseline task.
PatchTaskArn == "AWS-RunPatchBaseline"

TaskArns == { "AWS-RunPatchBaseline", "aws-runpatchbaseline", "AWS-RunShellScript", None }

\* Status values of a command invocation: those the service documents
\* ("InProgress" is written without a space), the detailed status
\* "ExecutionTimedOut", and a missing key.
Statuses ==
    { "Pending", "InProgress", "Delayed", "Success", "Cancelled", "TimedOut",
      "Failed", "Cancelling", "ExecutionTimedOut", None }

\* "Parameters" of a task invocation: the key is absent, is not a string,
\* or is one of these texts.
ParameterTexts ==
    { "",
      "not json",
      "[]",
      "{}",
      "{\"parameters\":[]}",
      "{\"parameters\":{}}",
      "{\"parameters\":{\"Operation\":[]}}",
      "{\"parameters\":{\"Operation\":[\"Scan\"]}}",
      "{\"parameters\":{\"Operation\":[\"Install\"]}}",
      "{\"parameters\":{\"Operation\":[\"Scan\",\"Install\"]}}" }

RawParameters ==
    { [kind |-> "absent", text |-> ""], [kind |-> "nonstr", text |-> ""] }
    \cup { [kind |-> "str", text |-> t] : t \in ParameterTexts }

CommandIds == { None, "", "cmd-1" }

\* What list_command_invocations returns first: nothing fixed, or the five
\* hosts of one patch run.
ResultListings ==
    { <<>>, <<"Success", "Success", "Failed", "InProgress", "Success">> }

Invocations == [Parameters : RawParameters, ExecutionId : CommandIds]

(***************************************************************************)
(* describe_maintenance_window_executions(WindowId, MaxResults=10): one    *)
(* request, no NextToken followed: the first MaxResults of the listing.    *)
(***************************************************************************)
DescribeExecutionsPage(history) ==
    [i \in 1..Min(Len(history), MaxResults) |->
        [WindowExecutionId |-> i, StartTime |-> history[i]]]

(***************************************************************************)
(* executions.sort(key=StartTime, reverse=True): a stable sort, so records *)
(* of equal StartTime keep the order of the listing.                       *)
(***************************************************************************)
RECURSIVE InsertByStartTimeDesc(_, _)
InsertByStartTimeDesc(sorted, e) ==
    IF sorted = <<>> THEN <<e>>
    ELSE IF Head(sorted).StartTime >= e.StartTime
         THEN <<Head(sorted)>> \o InsertByStartTimeDesc(Tail(sorted), e)
         ELSE <<e>> \o sorted

RECURSIVE SortByStartTimeDesc(_)
SortByStartTimeDesc(seq) ==
    IF seq = <<>> THEN <<>>
    ELSE InsertByStartTimeDesc(SortByStartTimeDesc(SubSeq(seq, 1, Len(seq) - 1)),
                               seq[Len(seq)])

(***************************************************************************)
(* json.loads on the texts of ParameterTexts.                              *)
(***************************************************************************)
JAbsent == [t |-> "absent", items |-> <<>>]
JList(items) == [t |-> "list", items |-> items]
JNoParams == [t |-> "absent", Operation |-> JAbsent]
JParamsArray == [t |-> "array", Operation |-> JAbsent]
JParams(op) == [t |-> "object", Operation |-> op]
JError == [t |-> "JSONDecodeError", parameters |-> JNoParams]
JArray == [t |-> "array", parameters |-> JNoParams]
JObject(params) == [t |-> "object", parameters |-> params]

JsonLoads(text) ==
    CASE text = "[]" -> JArray
      [] text = "{}" -> JObject(JNoParams)
      [] text = "{\"parameters\":[]}" -> JObject(JParamsArray)
      [] text = "{\"parameters\":{}}" -> JObject(JParams(JAbsent))
      [] text = "{\"parameters\":{\"Operation\":[]}}" -> JObject(JParams(JList(<<>>)))
      [] text = "{\"parameters\":{\"Operation\":[\"Scan\"]}}" ->
            JObject(JParams(JList(<<"Scan">>)))
      [] text = "{\"parameters\":{\"Operation\":[\"Install\"]}}" ->
            JObject(JParams(JList(<<"Install">>)))
      [] text = "{\"parameters\":{\"Operation\":[\"Scan\",\"Install\"]}}" ->
            JObject(JParams(JList(<<"Scan", "Install">>)))
      [] OTHER -> JError

(***************************************************************************)
(* Lines 330-342: the operation list of an invocation.  Only               *)
(* JSONDecodeError is caught: .get on a parsed value that is no object     *)
(* raises AttributeError, which leaves the function.                       *)
(***************************************************************************)
Parsed(operation_) == [raised |-> FALSE, operation |-> operation_]
Raised == [raised |-> TRUE, operation |-> <<>>]

ExtractOperation(raw_params) ==
    IF raw_params.kind # "str" \/ raw_params.text = "" THEN Parsed(<<>>)
    ELSE LET parsed == JsonLoads(raw_params.text) IN
         IF parsed.t = "JSONDecodeError" THEN Parsed(<<>>)
         ELSE IF parsed.t # "object" THEN Raised
         ELSE IF parsed.parameters.t = "absent" THEN Parsed(<<>>)
         ELSE IF parsed.parameters.t # "object" THEN Raised
         ELSE IF parsed.parameters.Operation.t = "absent" THEN Parsed(<<>>)
         ELSE Parsed(parsed.parameters.Operation.items)

\* The membership test replaced by a test for a non-empty operation list.
IsInstallAnyOperation(operation_) == operation_ # <<>>

\* Line 347: "Install" in operation.
IsInstall(operation_) == Contains(operation_, "Install")

\* "if not command_id": None and the empty string are both falsy.
Truthy(x) == x # None /\ x # ""

(***************************************************************************)
(* Lines 371-380: the bucket of one per-host result.                       *)
(***************************************************************************)
FailureStatuses ==
    { "Failed", "TimedOut", "Cancelled", "ExecutionTimedOut", "In Progress" }

Bucket(status) ==
    IF status = "Success" THEN "success"
    ELSE IF status \in FailureStatuses THEN "failure"
    ELSE "ignored"

(***************************************************************************)
(* get_patch_status_counts(ssm, window_id), one action per step.  A step   *)
(* issues at most one request; locals of a loop are cleared when the loop  *)
(* is left (the source never reads them again).                            *)
(***************************************************************************)
Request(api) ==
    /\ requested' = requested \cup {api}
    /\ lastRequest' = api

NoRequest ==
    /\ requested' = requested
    /\ lastRequest' = None

\* The state of the aggregator when it is called with id on a window whose
\* remote history is history.
StatusCalled(id, history) ==
    /\ pc = "call"
    /\ window_id = id
    /\ svcExecutions = history
    /\ executions = <<>>
    /\ execution_id = None
    /\ tasksLeft = 0
    /\ task = None
    /\ invPages = 0
    /\ resPages = 0
    /\ nInv = 0
    /\ nRes = 0
    /\ operation = <<>>
    /\ command_id = None
    /\ inst_status = None
    /\ success = 0
    /\ failure = 0
    /\ inspected = {}
    /\ ret = <<>>

\* Lines 284-288: the prefix check.
ValidateWindowId ==
    /\ pc = "call"
    /\ IF ~StartsWith(window_id, WindowIdPrefix)
       THEN /\ ret' = <<0, 0>>
            /\ pc' = "done"
       ELSE /\ ret' = ret
            /\ pc' = "executions"
    /\ NoRequest
    /\ UNCHANGED <<window_id, svcExecutions, svcResults, executions, execution_id, tasksLeft,
                   task, invPages, resPages, nInv, nRes, operation, command_id,
                   inst_status, success, failure, inspected>>

\* Lines 290-304: list the executions, sort, take the first.
SelectExecution ==
    /\ pc = "executions"
    /\ Request("describe_maintenance_window_executions")
    /\ LET sorted == SortByStartTimeDesc(DescribeExecutionsPage(svcExecutions)) IN
         /\ executions' = sorted
         /\ IF sorted = <<>>
            THEN /\ ret' = <<0, 0>>
                 /\ pc' = "done"
                 /\ execution_id' = execution_id
            ELSE /\ ret' = ret
                 /\ pc' = "list_tasks"
                 /\ execution_id' = sorted[1].WindowExecutionId
    /\ success' = 0
    /\ failure' = 0
    /\ UNCHANGED <<window_id, svcExecutions, svcResults, tasksLeft, task, invPages, resPages,
                   nInv, nRes, operation, command_id, inst_status, inspected>>

\* Lines 306-310: list the tasks of the selected execution.
ListTasks ==
    /\ pc = "list_tasks"
    /\ Request("describe_maintenance_window_execution_tasks")
    /\ inspected' = inspected \cup {execution_id}
    /\ \E n \in 0..MaxTasks : tasksLeft' = n
    /\ pc' = "tasks"
    /\ UNCHANGED <<window_id, svcExecutions, svcResults, executions, execution_id, task,
                   invPages, resPages, nInv, nRes, operation, command_id,
                   inst_status, success, failure, ret>>

\* Lines 312-326: the next task; a patch-baseline task opens the paginator
\* of its invocations, any other task is passed over.
NextTask ==
    /\ pc = "tasks"
    /\ tasksLeft > 0
    /\ tasksLeft' = tasksLeft - 1
    /\ \E arn \in TaskArns :
         /\ task' = arn
         /\ IF arn # PatchTaskArn
            THEN /\ NoRequest
                 /\ UNCHANGED <<pc, invPages, inspected>>
            ELSE /\ pc' = "invs"
                 /\ invPages' = 1
                 /\ Request("describe_maintenance_window_execution_task_invocations")
                 /\ inspected' = inspected \cup {execution_id}
    /\ UNCHANGED <<window_id, svcExecutions, svcResults, executions, execution_id, resPages,
                   nInv, nRes, operation, command_id, inst_status, success,
                   failure, ret>>

\* Line 382: every task was iterated.
ReturnCounts ==
    /\ pc = "tasks"
    /\ tasksLeft = 0
    /\ ret' = <<success, failure>>
    /\ pc' = "done"
    /\ NoRequest
    /\ UNCHANGED <<window_id, svcExecutions, svcResults, executions, execution_id, tasksLeft,
                   task, invPages, resPages, nInv, nRes, operation, command_id,
                   inst_status, success, failure, inspected>>

\* Lines 327-363: one invocation of the current page.
NextInvocation ==
    /\ pc = "invs"
    /\ nInv < MaxInvocations
    /\ nInv' = nInv + 1
    /\ \E inv \in Invocations :
         LET r == ExtractOperation(inv.Parameters) IN
         /\ operation' = r.operation
         /\ IF r.raised
            THEN /\ pc' = "raised"
                 /\ NoRequest
                 /\ UNCHANGED <<command_id, resPages>>
            ELSE IF ~IsInstall(r.operation)
            THEN /\ NoRequest
                 /\ UNCHANGED <<pc, command_id, resPages>>
            ELSE /\ command_id' = inv.ExecutionId
                 /\ IF ~Truthy(inv.ExecutionId)
                    THEN /\ NoRequest
                         /\ UNCHANGED <<pc, resPages>>
                    ELSE /\ pc' = "results"
                         /\ resPages' = 1
                         /\ Request("list_command_invocations")
    /\ UNCHANGED <<window_id, svcExecutions, svcResults, executions, execution_id, tasksLeft,
                   task, invPages, nRes, inst_status, success, failure,
                   inspected, ret>>

\* Line 323: the paginator follows NextToken to the next page of invocations.
NextInvocationPage ==
    /\ pc = "invs"
    /\ invPages < MaxPages
    /\ invPages' = invPages + 1
    /\ Request("describe_maintenance_window_execution_task_invocations")
    /\ inspected' = inspected \cup {execution_id}
    /\ UNCHANGED <<pc, window_id, svcExecutions, svcResults, executions, execution_id,
                   tasksLeft, task, resPages, nInv, nRes, operation, command_id,
                   inst_status, success, failure, ret>>

\* Line 323: the last page of invocations is exhausted.
EndInvocations ==
    /\ pc = "invs"
    /\ pc' = "tasks"
    /\ invPages' = 0
    /\ operation' = <<>>
    /\ command_id' = None
    /\ NoRequest
    /\ UNCHANGED <<window_id, svcExecutions, svcResults, executions, execution_id, tasksLeft,
                   task, resPages, nInv, nRes, inst_status, success, failure,
                   inspected, ret>>

\* Lines 364-380: one per-host result of the current page.
NextResult ==
    /\ pc = "results"
    /\ svcResults # <<>> \/ nRes < MaxHostResults
    /\ nRes' = nRes + 1
    /\ \E status \in (IF svcResults # <<>> THEN { Head(svcResults) } ELSE Statuses) :
         /\ inst_status' = status
         /\ success' = IF Bucket(status) = "success" THEN success + 1 ELSE success
         /\ failure' = IF Bucket(status) = "failure" THEN failure + 1 ELSE failure
    /\ svcResults' = IF svcResults # <<>> THEN Tail(svcResults) ELSE svcResults
    /\ NoRequest
    /\ UNCHANGED <<pc, window_id, svcExecutions, executions, execution_id,
                   tasksLeft, task, invPages, resPages, nInv, operation,
                   command_id, inspected, ret>>

\* Line 360: the paginator follows NextToken to the next page of results.
NextResultPage ==
    /\ pc = "results"
    /\ resPages < MaxPages
    /\ resPages' = resPages + 1
    /\ Request("list_command_invocations")
    /\ UNCHANGED <<pc, window_id, svcExecutions, svcResults, executions, execution_id,
                   tasksLeft, task, invPages, nInv, nRes, operation, command_id,
                   inst_status, success, failure, inspected, ret>>

\* Line 360: the last page of results is exhausted.
EndResults ==
    /\ pc = "results"
    /\ svcResults = <<>>
    /\ pc' = "invs"
    /\ resPages' = 0
    /\ inst_status' = None
    /\ NoRequest
    /\ UNCHANGED <<window_id, svcExecutions, svcResults, executions, execution_id, tasksLeft,
                   task, invPages, nInv, nRes, operation, command_id, success,
                   failure, inspected, ret>>

(***************************************************************************)
(* get_target_count: remote data.                                          *)
(***************************************************************************)
KeyInstanceIds == <<"I", "n", "s", "t", "a", "n", "c", "e", "I", "d", "s">>
KeyResourceGroups ==
    <<"r", "e", "s", "o", "u", "r", "c", "e", "-", "g", "r", "o", "u", "p", "s",
      ":", "N", "a", "m", "e">>
TagPrefix == <<"t", "a", "g", ":">>
KeyTagEnv == <<"t", "a", "g", ":", "E", "n", "v">>
KeyTagOs == <<"t", "a", "g", ":", "O", "S">>
KeyUpperTag == <<"T", "a", "g", ":", "E", "n", "v">>

Hosts == { "i-1", "i-2" }

ExplicitRules ==
    { [Key |-> KeyInstanceIds, Values |-> ids] :
        ids \in { <<>>, <<"i-1">>, <<"i-1", "i-2">> } }

TagRules == { [Key |-> k, Values |-> <<"prod">>] : k \in {KeyTagEnv, KeyTagOs} }

ResourceGroupRules ==
    { [Key |-> KeyResourceGroups, Values |-> names] :
        names \in { <<"g1">>, <<"g1", "g2">> } }

UnsupportedRules == { [Key |-> KeyUpperTag, Values |-> <<"prod">>] }

\* Lines 85-86: a rule of the response that lacks "Key" or "Values".
MalformedRules == { [Values |-> <<"i-1">>], [Key |-> KeyInstanceIds] }

NoRule == [Key |-> <<>>, Values |-> <<>>]

Rules == ExplicitRules \cup TagRules \cup ResourceGroupRules \cup UnsupportedRules

\* Groupings the single response leaves on a later page: none, or one
\* grouping with one rule of a supported kind.
UnfetchedGroupings ==
    { <<>>,
      << <<[Key |-> KeyInstanceIds, Values |-> <<"i-1">>]>> >>,
      << <<[Key |-> KeyTagEnv, Values |-> <<"prod">>]>> >>,
      << <<[Key |-> KeyResourceGroups, Values |-> <<"g1">>]>> >> }

Ec2InstanceType == "AWS::EC2::Instance"

Members == [ResourceType : {Ec2InstanceType, "AWS::S3::Bucket"}, Id : Hosts]

RuleKinds == { "InstanceIds", "tag", "resource-groups", "unsupported" }

TargetApis ==
    { "describe_maintenance_window_targets", "list_group_resources",
      "describe_instances" }

(***************************************************************************)
(* get_target_count: the branches of lines 89-118 and the helpers.         *)
(***************************************************************************)
\* The prefix test replaced by one that ignores the case of the first letter.
RuleKindAnyCase(key) ==
    IF key = KeyInstanceIds THEN "InstanceIds"
    ELSE IF StartsWith(key, TagPrefix) \/ StartsWith(key, <<"T", "a", "g", ":">>)
    THEN "tag"
    ELSE IF key = KeyResourceGroups THEN "resource-groups"
    ELSE "unsupported"

\* Lines 89, 93, 101 and 117: the branch a rule's key selects.
RuleKind(key) ==
    IF key = KeyInstanceIds THEN "InstanceIds"
    ELSE IF StartsWith(key, TagPrefix) THEN "tag"
    ELSE IF key = KeyResourceGroups THEN "resource-groups"
    ELSE "unsupported"

\* Index of the first occurrence of sep in s at or after from, 0 if none.
RECURSIVE Find(_, _, _)
Find(s, sep, from) ==
    IF from + Len(sep) - 1 > Len(s) THEN 0
    ELSE IF SubSeq(s, from, from + Len(sep) - 1) = sep THEN from
    ELSE Find(s, sep, from + 1)

\* Lines 94-96: "tag:" + key.split("tag:")[1], for a key that starts with
\* "tag:": the text between the first and the second "tag:".
TagFilterName(key) ==
    LET rest == SubSeq(key, Len(TagPrefix) + 1, Len(key))
        next == Find(rest, TagPrefix, 1)
    IN  TagPrefix \o (IF next = 0 THEN rest ELSE SubSeq(rest, 1, next - 1))

IsOtherResource(resourceType) == resourceType # "AWS::EC2::Instance"

\* Line 112: only compute instances are counted.
IsEc2Instance(resourceType) == resourceType = Ec2InstanceType

AddToList(ids, id) == Append(ids, id)

\* Line 128: instance_ids.add on a set, kept in order of first arrival.
SetAdd(ids, id) == IF Contains(ids, id) THEN ids ELSE Append(ids, id)

\* Line 90: the count an explicit rule adds.
ExplicitCount(values) == Len(values)

(***************************************************************************)
(* get_target_count(ssm, ec2, resourcegroups, window_id), one action per   *)
(* step.                                                                   *)
(***************************************************************************)
NoRules == [k \in RuleKinds |-> 0]

RulesIterated ==
    nRules["InstanceIds"] + nRules["tag"] + nRules["resource-groups"]
    + nRules["unsupported"]

TargetCalled(unfetched) ==
    /\ tpc = "call"
    /\ svcUnfetched = unfetched
    /\ groupsLeft = 0
    /\ tag_filters = <<>>
    /\ groupNames = <<>>
    /\ count = 0
    /\ rgPages = 0
    /\ instance_ids = <<>>
    /\ tagPages = 0
    /\ total = 0
    /\ target_count = <<>>
    /\ nItems = 0
    /\ nRules = NoRules
    /\ explicitIds = 0
    /\ rgReturned = <<>>
    /\ tagReturned = <<>>
    /\ rule = NoRule
    /\ claimed = 0

\* Lines 73-77: one request for the window's groupings; NextToken is not
\* followed, so the groupings of later pages stay unfetched.
DescribeTargets ==
    /\ tpc = "call"
    /\ Request("describe_maintenance_window_targets")
    /\ \E fetched \in 0..TargetsPageSize :
         /\ svcUnfetched # <<>> => fetched = TargetsPageSize
         /\ groupsLeft' = fetched
    /\ total' = 0
    /\ tpc' = "groupings"
    /\ UNCHANGED <<svcUnfetched, rule, claimed, tag_filters, groupNames, count, rgPages,
                   instance_ids, tagPages, target_count, nItems, nRules,
                   explicitIds, rgReturned, tagReturned>>

\* The next grouping taken without emptying the filter list.
NextGroupingKeepsFilters ==
    /\ tpc = "groupings"
    /\ groupsLeft > 0
    /\ groupsLeft' = groupsLeft - 1
    /\ tpc' = "rules"
    /\ NoRequest
    /\ UNCHANGED <<svcUnfetched, rule, claimed, tag_filters, groupNames, count,
                   rgPages, instance_ids, tagPages, total, target_count, nItems,
                   nRules, explicitIds, rgReturned, tagReturned>>

\* Lines 79-82: the next grouping starts with an empty filter list.
NextGrouping ==
    /\ tpc = "groupings"
    /\ groupsLeft > 0
    /\ groupsLeft' = groupsLeft - 1
    /\ tag_filters' = <<>>
    /\ tpc' = "rules"
    /\ NoRequest
    /\ UNCHANGED <<svcUnfetched, rule, claimed, groupNames, count, rgPages, instance_ids,
                   tagPages, total, target_count, nItems, nRules, explicitIds,
                   rgReturned, tagReturned>>

\* Line 133: every grouping of the response was iterated.
ReturnTotal ==
    /\ tpc = "groupings"
    /\ groupsLeft = 0
    /\ target_count' = <<total>>
    /\ tpc' = "done"
    /\ NoRequest
    /\ UNCHANGED <<svcUnfetched, rule, claimed, groupsLeft, tag_filters, groupNames,
                   count, rgPages, instance_ids, tagPages, total, nItems, nRules,
                   explicitIds, rgReturned, tagReturned>>

\* Lines 84-102 and 117-118: one rule of the current grouping.  rule["Key"]
\* and rule["Values"] raise KeyError on a rule that lacks the member.
NextRule ==
    /\ tpc = "rules"
    /\ RulesIterated < MaxRules
    /\ \E r \in Rules \cup MalformedRules :
         /\ rule' = r
         /\ claimed' =
              IF DOMAIN r = { "Key", "Values" } /\ r.Key = KeyInstanceIds
              THEN claimed + Len(r.Values) ELSE claimed
         /\ IF ~({ "Key", "Values" } \subseteq DOMAIN r)
            THEN /\ tpc' = "raised"
                 /\ UNCHANGED <<nRules, total, explicitIds, tag_filters,
                                groupNames, rgReturned>>
            ELSE LET kind == RuleKind(r.Key) IN
                 /\ nRules' = [nRules EXCEPT ![kind] = @ + 1]
                 /\ CASE kind = "InstanceIds" ->
                           /\ total' = total + ExplicitCount(r.Values)
                           /\ explicitIds' = explicitIds + Len(r.Values)
                           /\ UNCHANGED <<tpc, tag_filters, groupNames>>
                      [] kind = "tag" ->
                           /\ tag_filters' =
                                Append(tag_filters,
                                       [Name |-> TagFilterName(r.Key),
                                        Values |-> r.Values])
                           /\ UNCHANGED <<tpc, total, explicitIds, groupNames>>
                      [] kind = "resource-groups" ->
                           /\ groupNames' = r.Values
                           /\ tpc' = IF r.Values = <<>> THEN "rules" ELSE "groups"
                           /\ UNCHANGED <<total, explicitIds, tag_filters>>
                      [] OTHER ->
                           UNCHANGED <<tpc, total, explicitIds, tag_filters,
                                       groupNames>>
                 /\ rgReturned' =
                      IF kind = "resource-groups" THEN <<>> ELSE rgReturned
    /\ NoRequest
    /\ UNCHANGED <<svcUnfetched, groupsLeft, count, rgPages, instance_ids,
                   tagPages, target_count, nItems, tagReturned>>

\* Lines 102-109: the paginator of the next resource group is opened.
NextGroup ==
    /\ tpc = "groups"
    /\ count' = 0
    /\ rgPages' = 1
    /\ Request("list_group_resources")
    /\ tpc' = "members"
    /\ UNCHANGED <<svcUnfetched, rule, claimed, groupsLeft, tag_filters, groupNames,
                   instance_ids, tagPages, total, target_count, nItems, nRules,
                   explicitIds, rgReturned, tagReturned>>

\* Lines 110-113: one member of the current page.
NextMember ==
    /\ tpc = "members"
    /\ nItems < MaxHostResults
    /\ nItems' = nItems + 1
    /\ \E member \in Members :
         /\ count' = IF IsEc2Instance(member.ResourceType) THEN count + 1 ELSE count
         /\ rgReturned' = Append(rgReturned, member)
         /\ claimed' = IF member.ResourceType = "AWS::EC2::Instance"
                       THEN claimed + 1 ELSE claimed
    /\ NoRequest
    /\ UNCHANGED <<tpc, svcUnfetched, rule, groupsLeft, tag_filters,
                   groupNames, rgPages, instance_ids, tagPages, total,
                   target_count, nRules, explicitIds, tagReturned>>

\* Line 109: the paginator follows NextToken to the next page of members.
NextMemberPage ==
    /\ tpc = "members"
    /\ rgPages < MaxPages
    /\ rgPages' = rgPages + 1
    /\ Request("list_group_resources")
    /\ UNCHANGED <<tpc, svcUnfetched, rule, claimed, groupsLeft, tag_filters,
                   groupNames, count, instance_ids, tagPages, total,
                   target_count, nItems, nRules, explicitIds, rgReturned,
                   tagReturned>>

\* Lines 109 and 115: the last page is exhausted, the count is added.
EndMembers ==
    /\ tpc = "members"
    /\ total' = total + count
    /\ groupNames' = Tail(groupNames)
    /\ tpc' = IF Tail(groupNames) = <<>> THEN "rules" ELSE "groups"
    /\ rgPages' = 0
    /\ count' = 0
    /\ NoRequest
    /\ UNCHANGED <<svcUnfetched, rule, claimed, groupsLeft, tag_filters,
                   instance_ids, tagPages, target_count, nItems, nRules,
                   explicitIds, rgReturned, tagReturned>>

\* Lines 109 and 125: the request for a page of a walk fails (transport
\* error); nothing catches it, get_target_count ends with the error.
PageFails ==
    /\ tpc \in { "members", "instances" }
    /\ Request(IF tpc = "members" THEN "list_group_resources"
               ELSE "describe_instances")
    /\ tpc' = "raised"
    /\ UNCHANGED <<svcUnfetched, rule, claimed, groupsLeft, tag_filters, groupNames,
                   count, rgPages, instance_ids, tagPages, total, target_count,
                   nItems, nRules, explicitIds, rgReturned, tagReturned>>

\* Lines 120-125: the rules of the grouping were iterated; a non-empty
\* filter list opens the paginator of the tag query.
EndRules ==
    /\ tpc = "rules"
    /\ IF tag_filters # <<>>
       THEN /\ tpc' = "instances"
            /\ instance_ids' = <<>>
            /\ tagReturned' = <<>>
            /\ tagPages' = 1
            /\ Request("describe_instances")
       ELSE /\ tpc' = "groupings"
            /\ NoRequest
            /\ UNCHANGED <<instance_ids, tagReturned, tagPages>>
    /\ UNCHANGED <<svcUnfetched, rule, claimed, groupsLeft, tag_filters, groupNames,
                   count, rgPages, total, target_count, nItems, nRules,
                   explicitIds, rgReturned>>

\* Lines 126-128: one instance of the current page.
NextInstance ==
    /\ tpc = "instances"
    /\ nItems < MaxHostResults
    /\ nItems' = nItems + 1
    /\ \E id \in Hosts :
         /\ instance_ids' = SetAdd(instance_ids, id)
         /\ tagReturned' = Append(tagReturned, id)
    /\ NoRequest
    /\ UNCHANGED <<tpc, svcUnfetched, rule, claimed, groupsLeft, tag_filters,
                   groupNames, count, rgPages, tagPages, total, target_count,
                   nRules, explicitIds, rgReturned>>

\* Line 125: the paginator follows NextToken to the next page of instances.
NextInstancePage ==
    /\ tpc = "instances"
    /\ tagPages < MaxPages
    /\ tagPages' = tagPages + 1
    /\ Request("describe_instances")
    /\ UNCHANGED <<tpc, svcUnfetched, rule, claimed, groupsLeft, tag_filters,
                   groupNames, count, rgPages, instance_ids, total,
                   target_count, nItems, nRules, explicitIds, rgReturned,
                   tagReturned>>

\* Lines 125 and 130: the last page is exhausted, the set's size is added.
EndInstances ==
    /\ tpc = "instances"
    /\ total' = total + Len(instance_ids)
    /\ claimed' =
         claimed + Cardinality({ tagReturned[i] : i \in DOMAIN tagReturned })
    /\ tpc' = "groupings"
    /\ tagPages' = 0
    /\ instance_ids' = <<>>
    /\ NoRequest
    /\ UNCHANGED <<svcUnfetched, rule, groupsLeft, tag_filters, groupNames,
                   count, rgPages, target_count, nItems, nRules, explicitIds,
                   rgReturned, tagReturned>>

(***************************************************************************)
(* Today Filter.  Time is counted in ticks, the smallest unit a datetime    *)
(* represents; a datetime is its wall-clock reading in ticks and its       *)
(* tzinfo, <<>> for a naive one and <<utcoffset>> for an aware one.  An     *)
(* ISO text is the wall-clock reading it spells and its zone suffix.       *)
(***************************************************************************)
VARIABLES
    clock,                \* the system clock, in ticks of UTC
    next_execution_time,  \* runs_today: the parameter, reassigned in place
    arg,                  \* the argument runs_today was called with
    now_utc,              \* <<>> until datetime.now(timezone.utc) was read
    rpc,                  \* position in runs_today
    runsToday,            \* <<>> until runs_today returned, then <<value>>
    daysUsed              \* the values of start_of_today the calls of this run used

todayVars ==
    <<clock, next_execution_time, arg, now_utc, rpc, runsToday, daysUsed>>

TicksPerDay == TicksPerHour * HoursPerDay

LastTick == (MaxDays + 1) * TicksPerDay - 1

ZoneTexts == { "", "Z", "+00:00", "+01:00", "-01:00" }

Offsets == { 0, TicksPerHour, 0 - TicksPerHour }

IsoTexts ==
    [type : {"str"}, wall : 0..LastTick, zone : ZoneTexts, tz : {<<>>}]

Datetimes ==
    [type : {"datetime"}, wall : 0..LastTick, zone : {""},
     tz : {<<>>} \cup { <<o>> : o \in Offsets }]

NoDatetime == [type |-> "datetime", wall |-> 0, zone |-> "", tz |-> <<>>]

\* Line 52: str.replace("Z", "+00:00") on the zone suffix.
ReplaceZ(zone) == IF zone = "Z" THEN "+00:00" ELSE zone

\* Line 51: the tzinfo datetime.fromisoformat reads from the zone suffix.
ParseOffset(zone) ==
    CASE zone = "" -> <<>>
      [] zone = "+00:00" -> <<0>>
      [] zone = "+01:00" -> <<TicksPerHour>>
      [] zone = "-01:00" -> <<0 - TicksPerHour>>

\* Lines 51-53.
FromIsoformat(wall, zone) ==
    [type |-> "datetime", wall |-> wall, zone |-> "", tz |-> ParseOffset(zone)]

\* Line 57: replace(tzinfo=timezone.utc) keeps the wall-clock reading.
ReplaceTzinfoUtc(dt) == [dt EXCEPT !.tz = <<0>>]

\* The instant an aware datetime denotes, in ticks of UTC.
Instant(dt) == dt.wall - dt.tz[1]

\* Line 61: replace(hour=0, minute=0, second=0, microsecond=0).
StartOfDay(now) == now - (now % TicksPerDay)

InUtcDayClosed(start_of_today, t, end_of_today) ==
    start_of_today <= t /\ t <= end_of_today

\* Line 67: start_of_today <= next_execution_time < end_of_today.
InUtcDay(start_of_today, t, end_of_today) ==
    start_of_today <= t /\ t < end_of_today

TodayCalled(time, value) ==
    /\ rpc = "normalize"
    /\ clock = time
    /\ next_execution_time = value
    /\ arg = value
    /\ now_utc = <<>>
    /\ runsToday = <<>>
    /\ daysUsed = {}

\* The system clock advances while runs_today has not read it yet.
Tick ==
    /\ rpc \in { "normalize", "aware", "now" }
    /\ clock < LastTick
    /\ clock' = clock + 1
    /\ UNCHANGED <<next_execution_time, arg, now_utc, rpc, runsToday, daysUsed>>

\* Lines 50-53: a text is parsed, a datetime is kept.
Normalize ==
    /\ rpc = "normalize"
    /\ next_execution_time' =
         IF next_execution_time.type = "str"
         THEN FromIsoformat(next_execution_time.wall,
                            ReplaceZ(next_execution_time.zone))
         ELSE next_execution_time
    /\ rpc' = "aware"
    /\ UNCHANGED <<clock, arg, now_utc, runsToday, daysUsed>>

\* Lines 56-57: a naive datetime is taken as UTC.
EnsureAware ==
    /\ rpc = "aware"
    /\ next_execution_time' =
         IF next_execution_time.tz = <<>>
         THEN ReplaceTzinfoUtc(next_execution_time)
         ELSE next_execution_time
    /\ rpc' = "now"
    /\ UNCHANGED <<clock, arg, now_utc, runsToday, daysUsed>>

\* Line 60: the evaluation instant.
ReadNow ==
    /\ rpc = "now"
    /\ now_utc' = <<clock>>
    /\ rpc' = "return"
    /\ UNCHANGED <<clock, next_execution_time, arg, runsToday, daysUsed>>

\* Lines 61-67.
ReturnRunsToday ==
    /\ rpc = "return"
    /\ LET start_of_today == StartOfDay(now_utc[1])
           end_of_today == start_of_today + TicksPerDay
       IN  runsToday' = <<InUtcDay(start_of_today,
                                   Instant(next_execution_time),
                                   end_of_today)>>
    /\ daysUsed' = daysUsed \cup { StartOfDay(now_utc[1]) }
    /\ rpc' = "done"
    /\ UNCHANGED <<clock, next_execution_time, arg, now_utc>>

\* Lines 420-432 of lambda_handler: the loop over the listed windows calls
\* runs_today again, for the next window of the same run.
NextWindowCheck ==
    /\ rpc = "done"
    /\ \E value \in IsoTexts \cup Datetimes :
         /\ next_execution_time' = value
         /\ arg' = value
    /\ now_utc' = <<>>
    /\ runsToday' = <<>>
    /\ rpc' = "normalize"
    /\ UNCHANGED <<clock, daysUsed>>

TodayIdle ==
    /\ rpc = "idle"
    /\ clock = 0
    /\ next_execution_time = NoDatetime
    /\ arg = NoDatetime
    /\ now_utc = <<>>
    /\ runsToday = <<>>
    /\ daysUsed = {}

(***************************************************************************)
(* Post-run loop of post_patch_function (lines 527-570): one staged row    *)
(* after the other, with the session of the previous row kept in a cache.  *)
(***************************************************************************)
VARIABLES
    ppc,                \* position in the loop
    pre_patch_rows,     \* the staged rows read from the staging store
    rowIdx,             \* rows the loop has taken so far
    cached_session,     \* <<>> for None, else <<session>>
    cached_account_id,
    cached_role_name,
    cached_region,
    session,            \* <<>> while unbound, else <<session>>
    post_patch_rows,
    brokerLog,          \* indexes of the rows assume_role was invoked for
    s3,                 \* <<>> while unbound, else <<session of the s3 client>>
    writes,             \* the calls of write_csv_to_s3 so far
    emails,             \* the calls of send_email_ses so far
    assumed,            \* the keys assume_role was called with so far
    svcStaged           \* the forecast rows the staging store holds

postVars ==
    <<ppc, pre_patch_rows, rowIdx, cached_session, cached_account_id,
      cached_role_name, cached_region, session, post_patch_rows, brokerLog,
      s3, writes, emails, assumed, svcStaged>>

AccountIds == { "111", "222" }

RoleNames == { "patch-a", "patch-b" }

Regions == { "us-east-1", "eu-west-1" }

MmPatchingName ==
    <<"m", "m", "p", "a", "t", "c", "h", "i", "n", "g", "-", "a">>

StagedRows ==
    [AccountId : AccountIds, RoleName : RoleNames, Region : Regions,
     MaintenanceWindowId : { <<"m", "w", "-", "1">> },
     MaintenanceWindowName : { MmPatchingName },
     TargetInstanceCount : { "2" }]

StagedSequences ==
    UNION { [1..n -> StagedRows] : n \in 1..MaxRows }

\* Lines 136-144: the one row of email_account.csv, the reporting identity.
SharedAccount ==
    [account_id |-> "999", role_name |-> "reporting", region |-> "us-east-1"]

SharedKey ==
    <<SharedAccount.account_id, SharedAccount.role_name, SharedAccount.region>>

\* Lines 534-536: the key of a staged row.
RowKey(row) == <<row.AccountId, row.RoleName, row.Region>>

\* What get_patch_status_counts returns for a row's window.
StatusCounts == { <<0, 0>>, <<1, 1>> }

\* Lines 26-44: the session the Credential Broker issues; serial tells one
\* issued session from the next.
AssumeRole(account_id, role_name, region, serial) ==
    [account_id |-> account_id, role_name |-> role_name, region |-> region,
     serial |-> serial]

\* Lines 510-513 and 578-582: a session issued for the reporting identity.
SharedSession(serial) ==
    AssumeRole(SharedAccount.account_id, SharedAccount.role_name,
               SharedAccount.region, serial)

CacheMissByAccount(slot, account_id, role_name, region) ==
    slot[1] = <<>> \/ account_id # slot[2]

\* Lines 541-542.
\* slot is <<cached_session, cached_account_id, cached_role_name,
\* cached_region>>.
CacheMiss(slot, account_id, role_name, region) ==
    \/ slot[1] = <<>>
    \/ account_id # slot[2]
    \/ role_name # slot[3]
    \/ region # slot[4]

\* Lines 534-536 of the row the loop takes next.
NextRowMisses ==
    LET row == pre_patch_rows[rowIdx + 1]
    IN  CacheMiss(<<cached_session, cached_account_id, cached_role_name,
                    cached_region>>,
                  row.AccountId, row.RoleName, row.Region)

\* Lines 560-570.
OutcomeRow(row, counts) ==
    [AccountId |-> row.AccountId, Region |-> row.Region,
     RoleName |-> row.RoleName,
     MaintenanceWindowId |-> row.MaintenanceWindowId,
     MaintenanceWindowName |-> row.MaintenanceWindowName,
     TargetInstanceCount |-> row.TargetInstanceCount,
     Success |-> counts[1], Failure |-> counts[2]]

\* Lines 508-531: the loop is reached with at least one staged row, read
\* with the shared session.
LoopEntered(rows) ==
    /\ ppc = "loop"
    /\ pre_patch_rows = rows
    /\ rowIdx = 0
    /\ cached_session = <<>>
    /\ cached_account_id = None
    /\ cached_role_name = None
    /\ cached_region = None
    /\ session = <<SharedSession(0)>>
    /\ post_patch_rows = <<>>
    /\ brokerLog = <<>>
    /\ s3 = <<SharedSession(0)>>
    /\ writes = <<>>
    /\ emails = <<>>
    /\ assumed = { SharedKey }
    /\ svcStaged = rows

\* Lines 533-549, cache miss: assume_role is invoked and the slot replaced.
RefreshSession ==
    /\ ppc = "loop"
    /\ rowIdx < Len(pre_patch_rows)
    /\ NextRowMisses
    /\ LET row == pre_patch_rows[rowIdx + 1]
           issued == AssumeRole(row.AccountId, row.RoleName, row.Region,
                                rowIdx + 1)
       IN  /\ cached_session' = <<issued>>
           /\ cached_account_id' = row.AccountId
           /\ cached_role_name' = row.RoleName
           /\ cached_region' = row.Region
           /\ session' = <<issued>>
    /\ brokerLog' = Append(brokerLog, rowIdx + 1)
    /\ assumed' = assumed \cup { RowKey(pre_patch_rows[rowIdx + 1]) }
    /\ rowIdx' = rowIdx + 1
    /\ ppc' = "row"
    /\ UNCHANGED <<pre_patch_rows, post_patch_rows, s3, writes, emails,
                   svcStaged>>

\* Line 543 raises: nothing catches it, the phase ends with the error.
RefreshFails ==
    /\ ppc = "loop"
    /\ rowIdx < Len(pre_patch_rows)
    /\ NextRowMisses
    /\ brokerLog' = Append(brokerLog, rowIdx + 1)
    /\ assumed' = assumed \cup { RowKey(pre_patch_rows[rowIdx + 1]) }
    /\ rowIdx' = rowIdx + 1
    /\ ppc' = "raised"
    /\ UNCHANGED <<pre_patch_rows, cached_session, cached_account_id,
                   cached_role_name, cached_region, session, post_patch_rows,
                   s3, writes, emails, svcStaged>>

\* Lines 533-549, cache hit: the cached session is taken as it is.
ReuseSession ==
    /\ ppc = "loop"
    /\ rowIdx < Len(pre_patch_rows)
    /\ ~NextRowMisses
    /\ session' = cached_session
    /\ rowIdx' = rowIdx + 1
    /\ ppc' = "row"
    /\ UNCHANGED <<pre_patch_rows, cached_session, cached_account_id,
                   cached_role_name, cached_region, post_patch_rows, brokerLog,
                   s3, writes, emails, assumed, svcStaged>>

\* Lines 553-570: the clients are taken from the row's session and the
\* counts of the row's window are appended.
CollectRow ==
    /\ ppc = "row"
    /\ s3' = session
    /\ \E counts \in StatusCounts :
         post_patch_rows' =
             Append(post_patch_rows, OutcomeRow(pre_patch_rows[rowIdx], counts))
    /\ ppc' = "loop"
    /\ UNCHANGED <<pre_patch_rows, rowIdx, cached_session, cached_account_id,
                   cached_role_name, cached_region, session, brokerLog,
                   writes, emails, assumed, svcStaged>>

\* Line 558 raises: nothing catches it, the phase ends with the error.
CollectFails ==
    /\ ppc = "row"
    /\ s3' = session
    /\ ppc' = "raised"
    /\ UNCHANGED <<pre_patch_rows, rowIdx, cached_session, cached_account_id,
                   cached_role_name, cached_region, session, post_patch_rows,
                   brokerLog, writes, emails, assumed, svcStaged>>

\* Line 533: no row is left.
EndLoop ==
    /\ ppc = "loop"
    /\ rowIdx = Len(pre_patch_rows)
    /\ ppc' = "collected"
    /\ UNCHANGED <<pre_patch_rows, rowIdx, cached_session, cached_account_id,
                   cached_role_name, cached_region, session, post_patch_rows,
                   brokerLog, s3, writes, emails, assumed, svcStaged>>

(***************************************************************************)
(* post_patch_function as a whole (lines 492-598): the staged rows are     *)
(* read, the loop above runs, the outcome rows are written and reported.   *)
(***************************************************************************)
\* Lines 1-12: the modules the script imports.
ModuleImports == { "boto3", "os", "csv", "io", "json", "html", "time" }

NoRowsNever(rows) == FALSE

\* Lines 446 and 521: "if not rows".
NoRows(rows) == rows = <<>>

PrePatchKey == "pre_patch_notification/mw-running-today-output.csv"

PostPatchKey == "post_patch_notification/mw-post-patch-output.csv"

\* Lines 148-161: what one call of write_csv_to_s3 is made with.
WriteCall(client, key, rows) == [s3 |-> client, key |-> key, rows |-> rows]

\* Lines 249-272: what one call of send_email_ses is made with; the body is
\* the table of the rows.
EmailCall(sess, subject, rows) ==
    [session |-> sess, subject |-> subject, rows |-> rows]

\* Line 492: post_patch_function is called; the staging store holds staged.
PostCalled(staged) ==
    /\ ppc = "start"
    /\ pre_patch_rows = <<>>
    /\ rowIdx = 0
    /\ cached_session = <<>>
    /\ cached_account_id = None
    /\ cached_role_name = None
    /\ cached_region = None
    /\ session = <<>>
    /\ post_patch_rows = <<>>
    /\ brokerLog = <<>>
    /\ s3 = <<>>
    /\ writes = <<>>
    /\ emails = <<>>
    /\ assumed = {}
    /\ svcStaged = staged

\* Lines 508-513: the session of the reporting identity.
AssumeShared ==
    /\ ppc = "start"
    /\ session' = <<SharedSession(0)>>
    /\ assumed' = assumed \cup { SharedKey }
    /\ ppc' = "read"
    /\ UNCHANGED <<pre_patch_rows, rowIdx, cached_session, cached_account_id,
                   cached_role_name, cached_region, post_patch_rows, brokerLog,
                   s3, writes, emails, svcStaged>>

\* Lines 515-516: the staged rows are read with the shared session's client.
ReadStaged ==
    /\ ppc = "read"
    /\ s3' = session
    /\ pre_patch_rows' = svcStaged
    /\ ppc' = "rows"
    /\ UNCHANGED <<rowIdx, cached_session, cached_account_id, cached_role_name,
                   cached_region, session, post_patch_rows, brokerLog, writes,
                   emails, assumed, svcStaged>>

\* Lines 521-523: no staged row; sys.exit(0) names a module that is only
\* bound when the script imports it.
ExitNoRows ==
    /\ ppc = "rows"
    /\ NoRows(pre_patch_rows)
    /\ ppc' = IF "sys" \in ModuleImports THEN "exited" ELSE "raised"
    /\ UNCHANGED <<pre_patch_rows, rowIdx, cached_session, cached_account_id,
                   cached_role_name, cached_region, session, post_patch_rows,
                   brokerLog, s3, writes, emails, assumed, svcStaged>>

\* Lines 525-531: the cache is emptied before the loop.
EnterLoop ==
    /\ ppc = "rows"
    /\ ~NoRows(pre_patch_rows)
    /\ post_patch_rows' = <<>>
    /\ cached_session' = <<>>
    /\ cached_account_id' = None
    /\ cached_role_name' = None
    /\ cached_region' = None
    /\ ppc' = "loop"
    /\ UNCHANGED <<pre_patch_rows, rowIdx, session, brokerLog, s3, writes,
                   emails, assumed, svcStaged>>

\* Lines 575-582: the session of the reporting identity, once more.
AssumeSharedAgain ==
    /\ ppc = "collected"
    /\ session' = <<SharedSession(Len(pre_patch_rows) + 1)>>
    /\ assumed' = assumed \cup { SharedKey }
    /\ ppc' = "write"
    /\ UNCHANGED <<pre_patch_rows, rowIdx, cached_session, cached_account_id,
                   cached_role_name, cached_region, post_patch_rows, brokerLog,
                   s3, writes, emails, svcStaged>>

\* Line 585: write_csv_to_s3(s3, ...) with the client the name s3 is bound to.
WriteOutcome ==
    /\ ppc = "write"
    /\ writes' = Append(writes, WriteCall(s3[1], PostPatchKey, post_patch_rows))
    /\ ppc' = "send"
    /\ UNCHANGED <<pre_patch_rows, rowIdx, cached_session, cached_account_id,
                   cached_role_name, cached_region, session, post_patch_rows,
                   brokerLog, s3, emails, assumed, svcStaged>>

\* Lines 588-598: the report is sent with the session of line 578.
SendReport ==
    /\ ppc = "send"
    /\ emails' = Append(emails, EmailCall(session[1], "Post Patch Status Report",
                                          post_patch_rows))
    /\ ppc' = "returned"
    /\ UNCHANGED <<pre_patch_rows, rowIdx, cached_session, cached_account_id,
                   cached_role_name, cached_region, session, post_patch_rows,
                   brokerLog, s3, writes, assumed, svcStaged>>

PostIdle ==
    /\ ppc = "idle"
    /\ pre_patch_rows = <<>>
    /\ rowIdx = 0
    /\ cached_session = <<>>
    /\ cached_account_id = None
    /\ cached_role_name = None
    /\ cached_region = None
    /\ session = <<>>
    /\ post_patch_rows = <<>>
    /\ brokerLog = <<>>
    /\ s3 = <<>>
    /\ writes = <<>>
    /\ emails = <<>>
    /\ assumed = {}
    /\ svcStaged = <<>>

(***************************************************************************)
(* lambda_handler (lines 385-487): the pre-run phase.  The configured      *)
(* accounts are taken one after the other; the windows of an account come  *)
(* from one response of describe_maintenance_windows.                      *)
(***************************************************************************)
VARIABLES
    hpc,            \* position in lambda_handler
    accounts,       \* the rows of accounts.csv
    acctIdx,        \* accounts the loop has taken so far
    nWindows,       \* windows of the current account iterated so far
    output_rows,
    hret,           \* <<>> until lambda_handler returned, then <<value>>
    mw              \* the window the inner loop is at, NoWindow outside it

preVars == <<hpc, accounts, acctIdx, nWindows, output_rows, hret, mw>>

loopVars ==
    <<ppc, pre_patch_rows, rowIdx, cached_session, cached_account_id,
      cached_role_name, cached_region, post_patch_rows, brokerLog>>

ConfiguredAccounts ==
    { [account_id |-> "111", role_name |-> "patch-a", region |-> "us-east-1"],
      [account_id |-> "222", role_name |-> "patch-b", region |-> "eu-west-1"] }

AccountLists == UNION { [1..n -> ConfiguredAccounts] : n \in 0..MaxAccounts }

\* The prefix written with a capital first letter.
NamePrefixCapital == <<"M", "m", "p", "a", "t", "c", "h", "i", "n", "g">>

\* Line 429: the reserved prefix.
NamePrefix == <<"m", "m", "p", "a", "t", "c", "h", "i", "n", "g">>

\* Names of listed windows: with the prefix, with the prefix after another
\* letter, with the prefix in another case, and "" for a window without
\* Name (mw.get("Name", "")).
WindowNames ==
    { MmPatchingName, <<"x">> \o NamePrefix, <<"M">> \o Tail(NamePrefix), <<>> }

\* NextExecutionTime of a window: absent, or a time that runs_today finds
\* to be today or not.
NextExecutionTimes == { "absent", "today", "later" }

WindowIdentities ==
    [WindowId : { <<"m", "w", "-", "1">> }, Name : WindowNames,
     NextExecutionTime : NextExecutionTimes]

NoWindow == [WindowId |-> <<>>, Name |-> <<>>, NextExecutionTime |-> "absent"]

\* What get_target_count returns for a window.
TargetCounts == { 0, 2 }

InScopeAnyName(window) == window.NextExecutionTime = "today"

\* Lines 425-432: the three tests a window passes to be in scope.
InScope(window) ==
    /\ window.NextExecutionTime # "absent"
    /\ StartsWith(window.Name, NamePrefix)
    /\ window.NextExecutionTime = "today"

\* Lines 435-442.
ForecastRow(account, window, resolved) ==
    [AccountId |-> account.account_id, Region |-> account.region,
     RoleName |-> account.role_name,
     MaintenanceWindowId |-> window.WindowId,
     MaintenanceWindowName |-> window.Name,
     TargetInstanceCount |-> resolved]

\* csv.DictWriter writes a number as its decimal text.
DecimalText(n) == <<"0", "1", "2", "3", "4", "5", "6", "7", "8", "9">>[n + 1]

\* Lines 148-161 and 276-279: a row as it is read back from the store.
AsStaged(row) ==
    [row EXCEPT !.TargetInstanceCount = DecimalText(row.TargetInstanceCount)]

StagedAll(rows) == [i \in DOMAIN rows |-> AsStaged(rows[i])]

\* Lines 385-396: lambda_handler is called with accounts.csv holding config.
PreCalled(config) ==
    /\ hpc = "accounts"
    /\ accounts = config
    /\ acctIdx = 0
    /\ nWindows = 0
    /\ output_rows = <<>>
    /\ hret = <<>>
    /\ mw = NoWindow

\* Lines 398-417: the next account; its session and clients are bound.
NextAccount ==
    /\ hpc = "accounts"
    /\ acctIdx < Len(accounts)
    /\ LET account == accounts[acctIdx + 1]
           issued == AssumeRole(account.account_id, account.role_name,
                                account.region, acctIdx + 1)
       IN  /\ session' = <<issued>>
           /\ s3' = <<issued>>
           /\ assumed' = assumed \cup
                 { <<account.account_id, account.role_name, account.region>> }
    /\ acctIdx' = acctIdx + 1
    /\ nWindows' = 0
    /\ hpc' = "windows"
    /\ UNCHANGED <<accounts, output_rows, hret, loopVars, writes, emails,
                   svcStaged>>
    /\ UNCHANGED mw

\* Line 407 raises: nothing catches it, lambda_handler ends with the error.
NextAccountFails ==
    /\ hpc = "accounts"
    /\ acctIdx < Len(accounts)
    /\ LET account == accounts[acctIdx + 1]
       IN  assumed' = assumed \cup
             { <<account.account_id, account.role_name, account.region>> }
    /\ acctIdx' = acctIdx + 1
    /\ hpc' = "raised"
    /\ UNCHANGED <<accounts, nWindows, output_rows, hret, loopVars, session,
                   s3, writes, emails, svcStaged>>
    /\ UNCHANGED mw

\* Lines 420-442: one window of the response.
NextWindow ==
    /\ hpc = "windows"
    /\ nWindows < MaxWindows
    /\ nWindows' = nWindows + 1
    /\ \E window \in WindowIdentities :
         /\ mw' = window
         /\ IF InScope(window)
            THEN \E resolved \in TargetCounts :
                 output_rows' =
                     Append(output_rows,
                            ForecastRow(accounts[acctIdx], window, resolved))
            ELSE UNCHANGED output_rows
    /\ UNCHANGED <<hpc, accounts, acctIdx, hret, postVars>>

\* Line 433 raises (a listing inside get_target_count failed): nothing in
\* the loops catches it, lambda_handler ends with the error.
NextWindowFails ==
    /\ hpc = "windows"
    /\ nWindows < MaxWindows
    /\ nWindows' = nWindows + 1
    /\ \E window \in WindowIdentities :
         /\ InScope(window)
         /\ mw' = window
    /\ hpc' = "raised"
    /\ UNCHANGED <<accounts, acctIdx, output_rows, hret, postVars>>

\* Line 420: the response holds no further window.
EndWindows ==
    /\ hpc = "windows"
    /\ hpc' = "accounts"
    /\ mw' = NoWindow
    /\ UNCHANGED <<accounts, acctIdx, nWindows, output_rows, hret, postVars>>

\* Lines 446-452: no row was collected.
ReturnNoRecords ==
    /\ hpc = "accounts"
    /\ acctIdx = Len(accounts)
    /\ NoRows(output_rows)
    /\ hret' = <<[status |-> "success", records_written |-> 0]>>
    /\ hpc' = "returned"
    /\ UNCHANGED <<accounts, acctIdx, nWindows, output_rows, postVars>>
    /\ UNCHANGED mw

\* Lines 456-465: the session of the reporting identity.
AssumeReporting ==
    /\ hpc = "accounts"
    /\ acctIdx = Len(accounts)
    /\ ~NoRows(output_rows)
    /\ session' = <<SharedSession(Len(accounts) + 1)>>
    /\ assumed' = assumed \cup { SharedKey }
    /\ hpc' = "write"
    /\ UNCHANGED <<accounts, acctIdx, nWindows, output_rows, hret, loopVars,
                   s3, writes, emails, svcStaged>>
    /\ UNCHANGED mw

\* Line 468: write_csv_to_s3(s3=s3, ...) with the client the name s3 is
\* bound to; the name is bound only inside the account loop (line 415).
WriteForecast ==
    /\ hpc = "write"
    /\ IF s3 = <<>>
       THEN /\ hpc' = "raised"
            /\ UNCHANGED <<writes, svcStaged>>
       ELSE /\ writes' =
                 Append(writes, WriteCall(s3[1], PrePatchKey, output_rows))
            /\ svcStaged' = StagedAll(output_rows)
            /\ hpc' = "send"
    /\ UNCHANGED <<accounts, acctIdx, nWindows, output_rows, hret, loopVars,
                   session, s3, emails, assumed>>
    /\ UNCHANGED mw

\* Lines 471-482: the report is sent with the session of line 461.
SendForecast ==
    /\ hpc = "send"
    /\ emails' = Append(emails,
                        EmailCall(session[1], "Maintenance Windows Running Today",
                                  output_rows))
    /\ hpc' = "return"
    /\ UNCHANGED <<accounts, acctIdx, nWindows, output_rows, hret, loopVars,
                   session, s3, writes, assumed, svcStaged>>
    /\ UNCHANGED mw

\* Lines 484-487.
ReturnRecords ==
    /\ hpc = "return"
    /\ hret' = <<[status |-> "success", records_written |-> Len(output_rows)]>>
    /\ hpc' = "returned"
    /\ UNCHANGED <<accounts, acctIdx, nWindows, output_rows, postVars>>
    /\ UNCHANGED mw

PreIdle ==
    /\ hpc = "idle"
    /\ accounts = <<>>
    /\ acctIdx = 0
    /\ nWindows = 0
    /\ output_rows = <<>>
    /\ hret = <<>>
    /\ mw = NoWindow

(***************************************************************************)
(* build_html_table(output_rows, patch_phase) (lines 165-245).  Of the     *)
(* document only the account label cells are kept: every other column adds *)
(* one cell per row.                                                       *)
(***************************************************************************)
VARIABLES
    bpc,                \* position in build_html_table
    table_rows,         \* the argument output_rows
    rowNo,              \* rows rendered so far
    rendered_accounts,
    html_body           \* the label cells written so far, in document order

reportVars == <<bpc, table_rows, rowNo, rendered_accounts, html_body>>

\* Line 187: Counter(row["AccountId"] for row in output_rows)[value].
AccountCounts(rows, value) ==
    Cardinality({ i \in DOMAIN rows : rows[i].AccountId = value })

\* Lines 224-228: the label cell, written into table row number line.
LabelCell(line, value, rowspan) ==
    [line |-> line, AccountId |-> value, rowspan |-> rowspan]

BuildCalled(rows) ==
    /\ bpc = "rows"
    /\ table_rows = rows
    /\ rowNo = 0
    /\ rendered_accounts = {}
    /\ html_body = <<>>

\* Lines 214-234: one row; the label cell is written the first time the
\* row's account is met, with the account's count over the whole list.
RenderRow ==
    /\ bpc = "rows"
    /\ rowNo < Len(table_rows)
    /\ rowNo' = rowNo + 1
    /\ LET value == table_rows[rowNo + 1].AccountId IN
         IF value \notin rendered_accounts
         THEN /\ html_body' =
                   Append(html_body,
                          LabelCell(rowNo + 1, value,
                                    AccountCounts(table_rows, value)))
              /\ rendered_accounts' = rendered_accounts \cup { value }
         ELSE UNCHANGED <<html_body, rendered_accounts>>
    /\ UNCHANGED <<bpc, table_rows>>

\* Lines 166-173 and 236-245: the document is returned.
ReturnHtml ==
    /\ bpc = "rows"
    /\ rowNo = Len(table_rows)
    /\ bpc' = "done"
    /\ UNCHANGED <<table_rows, rowNo, rendered_accounts, html_body>>

ReportIdle ==
    /\ bpc = "idle"
    /\ table_rows = <<>>
    /\ rowNo = 0
    /\ rendered_accounts = {}
    /\ html_body = <<>>

\* No function is running.
StatusIdle ==
    /\ pc = "idle"
    /\ window_id = <<>>
    /\ svcExecutions = <<>>
    /\ svcResults = <<>>
    /\ executions = <<>>
    /\ execution_id = None
    /\ tasksLeft = 0
    /\ task = None
    /\ invPages = 0
    /\ resPages = 0
    /\ nInv = 0
    /\ nRes = 0
    /\ operation = <<>>
    /\ command_id = None
    /\ inst_status = None
    /\ success = 0
    /\ failure = 0
    /\ inspected = {}
    /\ ret = <<>>

TargetIdle ==
    /\ tpc = "idle"
    /\ svcUnfetched = <<>>
    /\ groupsLeft = 0
    /\ tag_filters = <<>>
    /\ groupNames = <<>>
    /\ count = 0
    /\ rgPages = 0
    /\ instance_ids = <<>>
    /\ tagPages = 0
    /\ total = 0
    /\ target_count = <<>>
    /\ nItems = 0
    /\ nRules = NoRules
    /\ explicitIds = 0
    /\ rgReturned = <<>>
    /\ tagReturned = <<>>
    /\ rule = NoRule
    /\ claimed = 0

NoRequestsYet ==
    /\ requested = {}
    /\ lastRequest = None

(***************************************************************************)
(* Specifications.                                                         *)
(* SpecStatus:  the aggregator called with any window id on a window with  *)
(*              at most one execution, with or without a fixed listing of  *)
(*              per-host results.                                          *)
(* SpecHistory: the aggregator called on a window with any history.        *)
(* SpecTarget:  the target resolver called on any window.                  *)
(* SpecToday:   runs_today called at any time with any text or datetime,   *)
(*              once per window of a run.                                  *)
(* SpecPost:    the post-run loop entered with any staged rows.            *)
(* SpecPostRun: post_patch_function called on any staging store content.   *)
(* SpecPre:     lambda_handler called on any accounts.csv.                 *)
(* SpecReport:  build_html_table called on any rows.                       *)
(* SpecPhases:  either phase called.                                       *)
(* SpecMain:    the script run as a program, on a staging store holding    *)
(*              what an earlier run left.                                  *)
(***************************************************************************)
vars == <<statusVars, apiVars, targetVars, todayVars, postVars, preVars, reportVars>>

InitStatus ==
    /\ \E id \in WindowIds, history \in { h \in ShortHistories : Len(h) <= 1 } :
            StatusCalled(id, history)
    /\ svcResults \in ResultListings
    /\ NoRequestsYet
    /\ ReportIdle
    /\ TargetIdle
    /\ TodayIdle
    /\ PostIdle
    /\ PreIdle

InitHistory ==
    /\ \E id \in WindowIds, history \in ExecHistories : StatusCalled(id, history)
    /\ svcResults = <<>>
    /\ NoRequestsYet
    /\ ReportIdle
    /\ TargetIdle
    /\ TodayIdle
    /\ PostIdle
    /\ PreIdle

NextStatus ==
    \/ ValidateWindowId /\ UNCHANGED <<targetVars, todayVars, postVars, preVars, reportVars>>
    \/ SelectExecution /\ UNCHANGED <<targetVars, todayVars, postVars, preVars, reportVars>>
    \/ ListTasks /\ UNCHANGED <<targetVars, todayVars, postVars, preVars, reportVars>>
    \/ NextTask /\ UNCHANGED <<targetVars, todayVars, postVars, preVars, reportVars>>
    \/ ReturnCounts /\ UNCHANGED <<targetVars, todayVars, postVars, preVars, reportVars>>
    \/ NextInvocation /\ UNCHANGED <<targetVars, todayVars, postVars, preVars, reportVars>>
    \/ NextInvocationPage /\ UNCHANGED <<targetVars, todayVars, postVars, preVars, reportVars>>
    \/ EndInvocations /\ UNCHANGED <<targetVars, todayVars, postVars, preVars, reportVars>>
    \/ NextResult /\ UNCHANGED <<targetVars, todayVars, postVars, preVars, reportVars>>
    \/ NextResultPage /\ UNCHANGED <<targetVars, todayVars, postVars, preVars, reportVars>>
    \/ EndResults /\ UNCHANGED <<targetVars, todayVars, postVars, preVars, reportVars>>

SpecStatus == InitStatus /\ [][NextStatus]_vars

SpecHistory == InitHistory /\ [][NextStatus]_vars

InitTarget ==
    /\ \E unfetched \in UnfetchedGroupings : TargetCalled(unfetched)
    /\ NoRequestsYet
    /\ ReportIdle
    /\ StatusIdle
    /\ TodayIdle
    /\ PostIdle
    /\ PreIdle

NextTarget ==
    \/ DescribeTargets /\ UNCHANGED <<statusVars, todayVars, postVars, preVars, reportVars>>
    \/ NextGrouping /\ UNCHANGED <<statusVars, todayVars, postVars, preVars, reportVars>>
    \/ ReturnTotal /\ UNCHANGED <<statusVars, todayVars, postVars, preVars, reportVars>>
    \/ NextRule /\ UNCHANGED <<statusVars, todayVars, postVars, preVars, reportVars>>
    \/ NextGroup /\ UNCHANGED <<statusVars, todayVars, postVars, preVars, reportVars>>
    \/ NextMember /\ UNCHANGED <<statusVars, todayVars, postVars, preVars, reportVars>>
    \/ NextMemberPage /\ UNCHANGED <<statusVars, todayVars, postVars, preVars, reportVars>>
    \/ EndMembers /\ UNCHANGED <<statusVars, todayVars, postVars, preVars, reportVars>>
    \/ EndRules /\ UNCHANGED <<statusVars, todayVars, postVars, preVars, reportVars>>
    \/ NextInstance /\ UNCHANGED <<statusVars, todayVars, postVars, preVars, reportVars>>
    \/ NextInstancePage /\ UNCHANGED <<statusVars, todayVars, postVars, preVars, reportVars>>
    \/ EndInstances /\ UNCHANGED <<statusVars, todayVars, postVars, preVars, reportVars>>
    \/ PageFails /\ UNCHANGED <<statusVars, todayVars, postVars, preVars, reportVars>>

SpecTarget == InitTarget /\ [][NextTarget]_vars

InitToday ==
    /\ \E time \in 0..LastTick, value \in IsoTexts \cup Datetimes :
            TodayCalled(time, value)
    /\ NoRequestsYet
    /\ ReportIdle
    /\ StatusIdle
    /\ TargetIdle
    /\ PostIdle
    /\ PreIdle

NextToday ==
    \/ Tick /\ UNCHANGED <<statusVars, apiVars, targetVars, postVars, preVars, reportVars>>
    \/ Normalize /\ UNCHANGED <<statusVars, apiVars, targetVars, postVars, preVars, reportVars>>
    \/ EnsureAware /\ UNCHANGED <<statusVars, apiVars, targetVars, postVars, preVars, reportVars>>
    \/ ReadNow /\ UNCHANGED <<statusVars, apiVars, targetVars, postVars, preVars, reportVars>>
    \/ ReturnRunsToday /\ UNCHANGED <<statusVars, apiVars, targetVars, postVars, preVars, reportVars>>
    \/ NextWindowCheck /\ UNCHANGED <<statusVars, apiVars, targetVars, postVars, preVars, reportVars>>

SpecToday == InitToday /\ [][NextToday]_vars

InitPost ==
    /\ \E rows \in StagedSequences : LoopEntered(rows)
    /\ NoRequestsYet
    /\ ReportIdle
    /\ StatusIdle
    /\ TargetIdle
    /\ TodayIdle
    /\ PreIdle

NextPost ==
    \/ RefreshSession /\ UNCHANGED <<statusVars, apiVars, targetVars, todayVars, preVars, reportVars>>
    \/ RefreshFails /\ UNCHANGED <<statusVars, apiVars, targetVars, todayVars, preVars, reportVars>>
    \/ ReuseSession /\ UNCHANGED <<statusVars, apiVars, targetVars, todayVars, preVars, reportVars>>
    \/ CollectRow /\ UNCHANGED <<statusVars, apiVars, targetVars, todayVars, preVars, reportVars>>
    \/ CollectFails /\ UNCHANGED <<statusVars, apiVars, targetVars, todayVars, preVars, reportVars>>
    \/ EndLoop /\ UNCHANGED <<statusVars, apiVars, targetVars, todayVars, preVars, reportVars>>

SpecPost == InitPost /\ [][NextPost]_vars

InitPostRun ==
    /\ \E staged \in { <<>> } \cup StagedSequences : PostCalled(staged)
    /\ NoRequestsYet
    /\ ReportIdle
    /\ StatusIdle
    /\ TargetIdle
    /\ TodayIdle
    /\ PreIdle

NextPostRun ==
    \/ NextPost
    \/ AssumeShared /\ UNCHANGED <<statusVars, apiVars, targetVars, todayVars, preVars, reportVars>>
    \/ ReadStaged /\ UNCHANGED <<statusVars, apiVars, targetVars, todayVars, preVars, reportVars>>
    \/ ExitNoRows /\ UNCHANGED <<statusVars, apiVars, targetVars, todayVars, preVars, reportVars>>
    \/ EnterLoop /\ UNCHANGED <<statusVars, apiVars, targetVars, todayVars, preVars, reportVars>>
    \/ AssumeSharedAgain /\ UNCHANGED <<statusVars, apiVars, targetVars, todayVars, preVars, reportVars>>
    \/ WriteOutcome /\ UNCHANGED <<statusVars, apiVars, targetVars, todayVars, preVars, reportVars>>
    \/ SendReport /\ UNCHANGED <<statusVars, apiVars, targetVars, todayVars, preVars, reportVars>>

SpecPostRun == InitPostRun /\ [][NextPostRun]_vars

InitPre ==
    /\ \E config \in AccountLists : PreCalled(config)
    /\ NoRequestsYet
    /\ ReportIdle
    /\ StatusIdle
    /\ TargetIdle
    /\ TodayIdle
    /\ PostIdle

NextPre ==
    \/ NextAccount /\ UNCHANGED <<statusVars, apiVars, targetVars, todayVars, reportVars>>
    \/ NextAccountFails /\ UNCHANGED <<statusVars, apiVars, targetVars, todayVars, reportVars>>
    \/ NextWindow /\ UNCHANGED <<statusVars, apiVars, targetVars, todayVars, reportVars>>
    \/ NextWindowFails /\ UNCHANGED <<statusVars, apiVars, targetVars, todayVars, reportVars>>
    \/ EndWindows /\ UNCHANGED <<statusVars, apiVars, targetVars, todayVars, reportVars>>
    \/ ReturnNoRecords /\ UNCHANGED <<statusVars, apiVars, targetVars, todayVars, reportVars>>
    \/ AssumeReporting /\ UNCHANGED <<statusVars, apiVars, targetVars, todayVars, reportVars>>
    \/ WriteForecast /\ UNCHANGED <<statusVars, apiVars, targetVars, todayVars, reportVars>>
    \/ SendForecast /\ UNCHANGED <<statusVars, apiVars, targetVars, todayVars, reportVars>>
    \/ ReturnRecords /\ UNCHANGED <<statusVars, apiVars, targetVars, todayVars, reportVars>>

SpecPre == InitPre /\ [][NextPre]_vars

InitReport ==
    /\ \E rows \in { <<>> } \cup StagedSequences : BuildCalled(rows)
    /\ NoRequestsYet
    /\ StatusIdle
    /\ TargetIdle
    /\ TodayIdle
    /\ PostIdle
    /\ PreIdle

NextReport ==
    \/ RenderRow /\ UNCHANGED <<statusVars, apiVars, targetVars, todayVars, postVars, preVars>>
    \/ ReturnHtml /\ UNCHANGED <<statusVars, apiVars, targetVars, todayVars, postVars, preVars>>

SpecReport == InitReport /\ [][NextReport]_vars

InitPhases == InitPre \/ InitPostRun

NextPhases == NextPre \/ NextPostRun

SpecPhases == InitPhases /\ [][NextPhases]_vars

(***************************************************************************)
(* The script run as a program (lines 602-612): lambda_handler, a pause,   *)
(* then post_patch_function.  The staging store outlives a run: it starts  *)
(* with what an earlier run left under the fixed key, nothing or rows.     *)
(***************************************************************************)
EarlierRunRows == { <<>> } \cup [1..1 -> StagedRows]

\* Lines 603-604: lambda_handler({}, None) is called.
MainCalled(config, staged) ==
    /\ PreCalled(config)
    /\ ppc = "idle"
    /\ pre_patch_rows = <<>>
    /\ rowIdx = 0
    /\ cached_session = <<>>
    /\ cached_account_id = None
    /\ cached_role_name = None
    /\ cached_region = None
    /\ session = <<>>
    /\ post_patch_rows = <<>>
    /\ brokerLog = <<>>
    /\ s3 = <<>>
    /\ writes = <<>>
    /\ emails = <<>>
    /\ assumed = {}
    /\ svcStaged = staged

\* Lines 605-611: lambda_handler returned; after the pause
\* post_patch_function is called, with locals of its own.
StartPostPatch ==
    /\ hpc = "returned"
    /\ ppc = "idle"
    /\ ppc' = "start"
    /\ session' = <<>>
    /\ s3' = <<>>
    /\ UNCHANGED <<pre_patch_rows, rowIdx, cached_session, cached_account_id,
                   cached_role_name, cached_region, post_patch_rows, brokerLog,
                   writes, emails, assumed, svcStaged>>

InitMain ==
    /\ \E config \in AccountLists, staged \in EarlierRunRows :
            MainCalled(config, staged)
    /\ NoRequestsYet
    /\ ReportIdle
    /\ StatusIdle
    /\ TargetIdle
    /\ TodayIdle

NextMain ==
    \/ NextPre
    \/ StartPostPatch /\ UNCHANGED <<statusVars, apiVars, targetVars, todayVars, preVars, reportVars>>
    \/ NextPostRun

SpecMain == InitMain /\ [][NextMain]_vars

(***************************************************************************)
(* Properties of the Status Aggregator.                                    *)
(***************************************************************************)
\* The statuses the specification counts as failures.
ClaimedFailureStatuses ==
    { "Failed", "TimedOut", "Cancelled", "ExecutionTimedOut", "InProgress" }

\* A step that iterates one per-host result.
ResultStep == pc = "results" /\ nRes' = nRes + 1

\* A step that iterates one task invocation.
InvocationStep == pc = "invs" /\ nInv' = nInv + 1

\* C1: every per-host result of a qualifying Install invocation is bucketed:
\* Success adds one to success, a status of Failed, TimedOut, Cancelled,
\* ExecutionTimedOut, InProgress adds one to failure, any other status
\* changes neither count.
C1_EveryResultBucketed ==
    [][ResultStep =>
          /\ inst_status' = "Success" =>
                success' = success + 1 /\ failure' = failure
          /\ inst_status' \in ClaimedFailureStatuses =>
                failure' = failure + 1 /\ success' = success
          /\ inst_status' \notin ClaimedFailureStatuses \cup {"Success"} =>
                success' = success /\ failure' = failure]_vars

\* The first execution, in listing order, among those of maximal start time.
LatestExecution(history) ==
    CHOOSE i \in 1..Len(history) :
        /\ \A j \in 1..Len(history) : history[j] <= history[i]
        /\ \A j \in 1..(i - 1) : history[j] < history[i]

\* C2: of a window with executions, only the tasks of one execution are
\* inspected: the first in listing order among those with the maximal start
\* time of all the window's executions.
C2_LatestExecutionInspected ==
    IF svcExecutions = <<>>
    THEN inspected = {}
    ELSE /\ inspected \subseteq {LatestExecution(svcExecutions)}
         /\ (pc \in {"tasks", "invs", "results"} =>
                inspected = {LatestExecution(svcExecutions)})

\* C3: an invocation whose operation list does not contain "Install" changes
\* neither count and its command's per-host results are never requested: the
\* result loop only runs for an operation list that contains "Install".
C3_NonInstallNeverCounted ==
    /\ [][(InvocationStep /\ ~Contains(operation', "Install")) =>
            /\ success' = success
            /\ failure' = failure
            /\ lastRequest' = None
            /\ requested' = requested
            /\ pc' # "results"]_vars
    /\ [](pc = "results" => Contains(operation, "Install"))

\* C3 witness: a Scan invocation was iterated after an Install invocation
\* whose result was counted.
C3_Witness ==
    /\ pc = "invs"
    /\ operation = <<"Scan">>
    /\ nInv = 2
    /\ success = 1
    /\ lastRequest = None

BeginsWithMw(id) == Len(id) >= 3 /\ id[1] = "m" /\ id[2] = "w" /\ id[3] = "-"

\* C4: a window id that does not start with "mw-" returns (0, 0) and no
\* request of any kind is issued.
C4_InvalidWindowIdNoQuery ==
    ~BeginsWithMw(window_id) =>
        /\ pc \in {"call", "done"}
        /\ requested = {}
        /\ lastRequest = None
        /\ (pc = "done" => ret = <<0, 0>>)

\* C4 witness: the call returned for a window id that holds "mw-" but does
\* not start with it.
C4_Witness ==
    /\ pc = "done"
    /\ window_id = <<"x", "m", "w", "-">>
    /\ ret = <<0, 0>>

\* C5: when the window has no execution, or no qualifying invocation exists
\* (none was handed to the command listing), the call returns (0, 0) and
\* does not end with an error.
C5_NoQualifyingReturnsZero ==
    "list_command_invocations" \notin requested =>
        /\ pc # "raised"
        /\ (pc = "done" => ret = <<0, 0>>)

RECURSIVE SumOfListLengths(_)
SumOfListLengths(rules) ==
    IF rules = <<>> THEN 0
    ELSE Len(Head(rules).Values) + SumOfListLengths(Tail(rules))

RECURSIVE RulesOf(_)
RulesOf(groupings) ==
    IF groupings = <<>> THEN <<>>
    ELSE Head(groupings) \o RulesOf(Tail(groupings))

AllExplicit(rules) ==
    \A i \in DOMAIN rules : rules[i].Key = KeyInstanceIds

\* Every rule of the window, fetched or not, is an explicit host-id list.
ExplicitOnlyWindow ==
    /\ nRules["tag"] = 0
    /\ nRules["resource-groups"] = 0
    /\ nRules["unsupported"] = 0
    /\ AllExplicit(RulesOf(svcUnfetched))

\* C6: for a window whose rules are all explicit host-id lists, the call
\* returns the sum of the list lengths over all of the window's groupings
\* and requests neither a host listing nor a resource-group listing.
C6_ExplicitOnlySumsAllGroupings ==
    (tpc = "done" /\ ExplicitOnlyWindow) =>
        /\ target_count =
             <<explicitIds + SumOfListLengths(RulesOf(svcUnfetched))>>
        /\ "describe_instances" \notin requested
        /\ "list_group_resources" \notin requested

DistinctIds(ids) == { ids[i] : i \in DOMAIN ids }

\* C7: within one grouping, the tag-filtered host listing adds the number of
\* distinct host ids it returned, however often each was returned.
C7_DuplicateHostCountedOnce ==
    [][(tpc = "instances" /\ tpc' = "groupings") =>
           total' = total + Cardinality(DistinctIds(tagReturned))]_vars

\* C7 witness: a grouping with two tag clauses whose listing returned the
\* same host id twice, across two pages, and the call returned 1.
C7_Witness ==
    /\ tpc = "done"
    /\ nRules["tag"] = 2
    /\ nRules["InstanceIds"] = 0
    /\ nRules["resource-groups"] = 0
    /\ tagReturned = <<"i-1", "i-1">>
    /\ requested = { "describe_maintenance_window_targets",
                     "describe_instances" }
    /\ target_count = <<1>>

Ec2Members(members) ==
    SelectSeq(members, LAMBDA m : m.ResourceType = Ec2InstanceType)

\* The window has exactly one resource-group rule and one tag rule, and both
\* resolved to the one host h.
SameSingleHost(h) ==
    /\ svcUnfetched = <<>>
    /\ nRules = [NoRules EXCEPT !["resource-groups"] = 1, !["tag"] = 1]
    /\ Len(Ec2Members(rgReturned)) = 1
    /\ Ec2Members(rgReturned)[1].Id = h
    /\ DistinctIds(tagReturned) = {h}

\* C8: a window with one resource-group rule and one tag rule that both
\* resolve to the same single host returns 2.
C8_ResourceGroupNotDeduplicated ==
    \A h \in Hosts : (tpc = "done" /\ SameSingleHost(h)) => target_count = <<2>>

\* C8 witness: the call returned 2 for such a window.
C8_Witness ==
    /\ tpc = "done"
    /\ SameSingleHost("i-1")
    /\ target_count = <<2>>

(***************************************************************************)
(* Properties of the Today Filter.                                         *)
(***************************************************************************)
\* The UTC offset the argument states, 0 when it states none.
StatedOffset(value) ==
    IF value.type = "str"
    THEN CASE value.zone \in { "", "Z", "+00:00" } -> 0
           [] value.zone = "+01:00" -> TicksPerHour
           [] value.zone = "-01:00" -> 0 - TicksPerHour
    ELSE IF value.tz = <<>> THEN 0 ELSE value.tz[1]

\* The instant the argument denotes, a time without offset read as UTC.
ArgInstant == arg.wall - StatedOffset(arg)

\* The UTC midnight at or before the evaluation instant.
MidnightBefore(now) ==
    CHOOSE d \in 0..now : d <= now /\ now < d + TicksPerDay
                          /\ \E k \in 0..MaxDays : d = k * TicksPerDay

\* C9: runs_today returns true exactly when the argument lies in
\* [start_of_day, start_of_day + 24h) of the evaluation instant: false at the
\* next UTC midnight, true one tick before it, true at start_of_day, false
\* before it; a time without offset is read as UTC.
C9_TodayIsHalfOpenUtcDay ==
    rpc = "done" =>
        LET start == MidnightBefore(now_utc[1])
            next == start + TicksPerDay
            t == ArgInstant
        IN  /\ runsToday[1] <=> (start <= t /\ t < next)
            /\ t = next => ~runsToday[1]
            /\ t = next - 1 => runsToday[1]
            /\ t = start => runsToday[1]
            /\ t < start => ~runsToday[1]

\* C9 witness: a text without offset that spells the last tick before the
\* next UTC midnight was found to run today.
C9_Witness ==
    /\ rpc = "done"
    /\ arg.type = "str"
    /\ arg.zone = ""
    /\ arg.wall = MidnightBefore(now_utc[1]) + TicksPerDay - 1
    /\ now_utc[1] < arg.wall
    /\ runsToday = <<TRUE>>

(***************************************************************************)
(* Properties of the post-run loop.                                        *)
(***************************************************************************)
CacheSlot ==
    <<cached_session, cached_account_id, cached_role_name, cached_region>>

\* C10: assume_role is invoked for a row exactly when it is the first row or
\* its (account, role, region) differs from the previous row's; on a match
\* the cached session is the one used and the cache slot stays as it is.
C10_BrokerInvokedOnKeyChange ==
    [][rowIdx' = rowIdx + 1 =>
          LET i == rowIdx'
              invoked == brokerLog' = Append(brokerLog, i)
              changed == \/ i = 1
                         \/ RowKey(pre_patch_rows[i]) # RowKey(pre_patch_rows[i - 1])
          IN  /\ invoked <=> changed
              /\ ~invoked => brokerLog' = brokerLog
              /\ ~changed => /\ CacheSlot' = CacheSlot
                             /\ session' = cached_session
                             /\ cached_session # <<>>]_vars

\* C10 witness: of three rows the second repeats the first key and the third
\* changes only the region; the broker was invoked for rows 1 and 3.
C10_Witness ==
    /\ ppc = "collected"
    /\ Len(pre_patch_rows) = 3
    /\ RowKey(pre_patch_rows[1]) = RowKey(pre_patch_rows[2])
    /\ pre_patch_rows[3].AccountId = pre_patch_rows[2].AccountId
    /\ pre_patch_rows[3].RoleName = pre_patch_rows[2].RoleName
    /\ pre_patch_rows[3].Region # pre_patch_rows[2].Region
    /\ brokerLog = <<1, 3>>

\* The session was issued by assume_role for the key of row i.
IssuedForRow(sess, i) ==
    /\ sess.account_id = pre_patch_rows[i].AccountId
    /\ sess.role_name = pre_patch_rows[i].RoleName
    /\ sess.region = pre_patch_rows[i].Region
    /\ \E k \in 1..Len(brokerLog) : brokerLog[k] = sess.serial

\* C11: the session get_patch_status_counts is run with for a staged row was
\* issued by assume_role for that row's account, role and region, in any
\* order of the rows.
C11_SessionMatchesRow ==
    ppc = "row" =>
        /\ session # <<>>
        /\ IssuedForRow(session[1], rowIdx)

\* C11 witness: the rows of one account are not contiguous; the third row
\* returns to the first account and gets a session issued for it anew.
C11_Witness ==
    /\ ppc = "row"
    /\ rowIdx = 3
    /\ RowKey(pre_patch_rows[1]) = RowKey(pre_patch_rows[3])
    /\ pre_patch_rows[2].AccountId # pre_patch_rows[1].AccountId
    /\ session = cached_session
    /\ session[1].serial = 3
    /\ IssuedForRow(session[1], 3)

(***************************************************************************)
(* Properties of the post-run phase as a whole.                            *)
(***************************************************************************)
\* C14: when the read of the staging store returns no rows, the phase ends
\* as a clean exit: no error is raised, nothing is written and nothing is
\* reported.
C14_NoStagedRowsCleanExit ==
    (svcStaged = <<>> /\ ppc \notin { "start", "read", "rows" }) =>
        /\ ppc = "exited"
        /\ writes = <<>>
        /\ emails = <<>>

\* The scope test as the specification words it: the window has a next
\* execution, that execution is today, and its name begins with mmpatching.
ClaimedInScope(window) ==
    /\ window.NextExecutionTime = "today"
    /\ Len(window.Name) >= 10
    /\ SubSeq(window.Name, 1, 10) =
           <<"m", "m", "p", "a", "t", "c", "h", "i", "n", "g">>

\* The inner loop of lambda_handler takes one window.
WindowStep == hpc = "windows" /\ nWindows' = nWindows + 1

\* C13: a window that is not in scope adds no row, and a pre-run whose loop
\* over the accounts ended without any row returns success with zero
\* records: it never reaches the staging write or the report, and the
\* reporting identity is never assumed.
C13_NoWindowInScopeIsNoOp ==
    /\ [][(WindowStep /\ ~ClaimedInScope(mw')) => output_rows' = output_rows]_vars
    /\ [](output_rows = <<>> =>
            /\ hpc \in { "idle", "accounts", "windows", "raised", "returned" }
            /\ writes = <<>>
            /\ emails = <<>>
            /\ SharedKey \notin assumed
            /\ (hpc = "returned" =>
                  hret = <<[status |-> "success", records_written |-> 0]>>))

\* C13 witness: two accounts were gone through, the last one had windows,
\* none was in scope, and the phase has returned.
C13_Witness ==
    /\ hpc = "returned"
    /\ Len(accounts) = 2
    /\ nWindows >= 1
    /\ output_rows = <<>>
    /\ hret # <<>>
    /\ hret[1].records_written = 0

\* C15: a failure of the credential broker for one account does not end the
\* pre-run: when the run is over, the loop has taken every configured
\* account, and the rows collected from the other accounts have been staged
\* and reported.
C15_BrokerFailureDropsOneAccount ==
    hpc \in { "raised", "returned" } =>
        /\ acctIdx = Len(accounts)
        /\ (output_rows # <<>> =>
              /\ writes # <<>>
              /\ writes[Len(writes)].rows = output_rows
              /\ emails # <<>>)

\* C18: in both phases every call of write_csv_to_s3 is given at least one
\* row.
C18_NoEmptyStagingWrite ==
    \A i \in DOMAIN writes : Len(writes[i].rows) >= 1

\* C18 witness: the post-run phase has written its outcome rows.
C18_Witness ==
    /\ ppc = "returned"
    /\ Len(writes) = 1
    /\ writes[1].key = PostPatchKey
    /\ Len(writes[1].rows) = Len(pre_patch_rows)
    /\ Len(pre_patch_rows) >= 1

\* C19: the client every staging write goes through, in the pre-run and in
\* the post-run phase, belongs to a session issued for the shared reporting
\* identity.
C19_StagingWriteUsesReportingSession ==
    \A i \in DOMAIN writes :
        /\ writes[i].s3.account_id = SharedAccount.account_id
        /\ writes[i].s3.role_name = SharedAccount.role_name
        /\ writes[i].s3.region = SharedAccount.region

\* The Credential Broker issued a session at its latest call.
BrokerAnswered ==
    \/ brokerLog = <<>>
    \/ /\ cached_session # <<>>
       /\ cached_session[1].serial = brokerLog[Len(brokerLog)]

\* Outcome row i carries staged row i's six fields and two counts.
CarriesStagedRow(i) ==
    /\ post_patch_rows[i].AccountId = pre_patch_rows[i].AccountId
    /\ post_patch_rows[i].Region = pre_patch_rows[i].Region
    /\ post_patch_rows[i].RoleName = pre_patch_rows[i].RoleName
    /\ post_patch_rows[i].MaintenanceWindowId =
           pre_patch_rows[i].MaintenanceWindowId
    /\ post_patch_rows[i].MaintenanceWindowName =
           pre_patch_rows[i].MaintenanceWindowName
    /\ post_patch_rows[i].TargetInstanceCount =
           pre_patch_rows[i].TargetInstanceCount
    /\ post_patch_rows[i].Success \in Nat
    /\ post_patch_rows[i].Failure \in Nat

\* C20: a post-run that read staged rows and whose broker calls all
\* succeeded ends with one outcome row per staged row, in the staged order,
\* each carrying the staged row's fields unchanged and the two counts.
C20_OneOutcomeRowPerStagedRow ==
    (ppc \in { "raised", "returned" } /\ pre_patch_rows # <<>> /\ BrokerAnswered) =>
        /\ Len(post_patch_rows) = Len(pre_patch_rows)
        /\ \A i \in DOMAIN post_patch_rows : CarriesStagedRow(i)

\* A key that is none of the three kinds the specification names: not
\* "InstanceIds", not beginning with "tag:", not "resource-groups:Name".
UnrecognizedKey(k) ==
    /\ k # <<"I", "n", "s", "t", "a", "n", "c", "e", "I", "d", "s">>
    /\ ~(Len(k) >= 4 /\ SubSeq(k, 1, 4) = <<"t", "a", "g", ":">>)
    /\ k # <<"r", "e", "s", "o", "u", "r", "c", "e", "-", "g", "r", "o", "u",
             "p", "s", ":", "N", "a", "m", "e">>

\* The inner loop of get_target_count takes one well-formed rule.
RuleStep == tpc = "rules" /\ nRules' # nRules

\* C17: a rule of an unrecognized kind adds nothing to the total or to the
\* tag filters and leaves the resolver inside the rule loop of the same
\* grouping with the same groupings still to come, so the rules after it
\* and the later groupings are resolved as if it were not there.
C17_UnrecognizedRuleContributesZero ==
    [][(RuleStep /\ UnrecognizedKey(rule'.Key)) =>
          /\ total' = total
          /\ tag_filters' = tag_filters
          /\ groupNames' = groupNames
          /\ groupsLeft' = groupsLeft
          /\ tpc' = "rules"]_vars

\* C17 witness: an unrecognized rule was passed over, the explicit rule
\* after it contributed its two hosts, and the total was returned.
C17_Witness ==
    /\ tpc = "done"
    /\ nRules["unsupported"] = 1
    /\ nRules["InstanceIds"] = 1
    /\ rule = [Key |-> KeyInstanceIds, Values |-> <<"i-1", "i-2">>]
    /\ target_count = <<2>>

\* C16: whatever parameter payload an invocation carries, taking the
\* invocation does not end the run with an error: the aggregator passes on
\* to the next invocation or to the invocation's per-host results.
C16_MalformedPayloadNeverRaises ==
    [][InvocationStep => pc' \in { "invs", "results" }]_vars

\* C12: the post-run half of the end-to-end scenario.  The call found one
\* qualifying Install invocation whose listing reported Success, Success,
\* Failed, InProgress, Success and nothing else; it returns 3 successes and
\* 2 failures.
C12_FiveHostsThreeSuccessTwoFailure ==
    (pc = "done" /\ nInv = 1 /\ nRes = 5 /\ svcResults = <<>>) =>
        ret = <<3, 2>>

\* C21: the listing of a window's groupings is walked through all of its
\* pages: when get_target_count returns, no grouping of the window is left
\* on a page that was never requested.
C21_NoGroupingLeftOnLaterPage ==
    tpc = "done" => svcUnfetched = <<>>

\* C22: a transport error while the targets of one window are listed costs
\* at most that window: every step that takes a window of the listing,
\* whether its target resolution succeeds or fails, leaves the pre-run
\* inside its window loop, with the rows collected so far kept.
C22_WindowFailureKeepsRunGoing ==
    [][(hpc = "windows" /\ nWindows' = nWindows + 1) =>
          /\ hpc' = "windows"
          /\ SubSeq(output_rows', 1, Len(output_rows)) = output_rows]_vars

(***************************************************************************)
(* Properties of the Report Builder.                                       *)
(***************************************************************************)
\* Row i opens a contiguous group of rows of one account.
OpensGroup(i) ==
    i = 1 \/ table_rows[i - 1].AccountId # table_rows[i].AccountId

\* The last row of the contiguous group that row i belongs to.
GroupEnd(i) ==
    CHOOSE j \in i..Len(table_rows) :
        /\ \A k \in i..j : table_rows[k].AccountId = table_rows[i].AccountId
        /\ (j = Len(table_rows)
            \/ table_rows[j + 1].AccountId # table_rows[i].AccountId)

\* C23: in the returned document a label cell stands in exactly the rows
\* that open a contiguous group of one account, names that account, and
\* spans the rows of that group and no more.
C23_OneLabelPerContiguousGroup ==
    bpc = "done" =>
        /\ \A i \in DOMAIN table_rows :
             OpensGroup(i) <=> (\E k \in DOMAIN html_body : html_body[k].line = i)
        /\ \A k \in DOMAIN html_body :
             /\ html_body[k].AccountId = table_rows[html_body[k].line].AccountId
             /\ html_body[k].rowspan = GroupEnd(html_body[k].line) - html_body[k].line + 1

(***************************************************************************)
(* Properties of the target resolver, continued.                           *)
(***************************************************************************)
\* C24: the call returns the sum, over all groupings of the window, of the
\* explicit list lengths, the compute-instance members of every resource
\* group named, and the distinct hosts of each grouping's tag query, with
\* nothing deduplicated across rule kinds or groupings.  (claimed is that
\* sum over the groupings iterated; the groupings left on a later page are
\* taken into account when they hold explicit lists only.)
C24_TotalIsSumOverAllGroupings ==
    (tpc = "done" /\ AllExplicit(RulesOf(svcUnfetched))) =>
        target_count = <<claimed + SumOfListLengths(RulesOf(svcUnfetched))>>

\* A key of the tag kind, as the specification words it.
IsTagKey(k) == Len(k) >= 4 /\ SubSeq(k, 1, 4) = <<"t", "a", "g", ":">>

\* C25: the filter list is empty when a grouping is entered, gains exactly
\* the clause of each tag rule of that grouping and nothing else, and is
\* not touched while the query runs; when the rules of the grouping are
\* through, one describe_instances query is opened if the list is not empty
\* and none if it is empty, and no query is opened anywhere else.
C25_OneTagQueryPerGrouping ==
    [][/\ (tpc = "groupings" /\ tpc' = "rules") => tag_filters' = <<>>
       /\ (RuleStep /\ IsTagKey(rule'.Key)) =>
              tag_filters' =
                  Append(tag_filters,
                         [Name |-> rule'.Key, Values |-> rule'.Values])
       /\ (RuleStep /\ ~IsTagKey(rule'.Key)) => tag_filters' = tag_filters
       /\ (tpc = "rules" /\ tpc' \in { "instances", "groupings" }) =>
              IF tag_filters # <<>>
              THEN tpc' = "instances" /\ lastRequest' = "describe_instances"
              ELSE tpc' = "groupings" /\ lastRequest' # "describe_instances"
       /\ (tpc # "instances" /\ lastRequest' = "describe_instances") =>
              tpc = "rules" /\ tpc' = "instances"
       /\ tpc = "instances" => tag_filters' = tag_filters]_vars

\* C25 witness: two groupings with one tag rule each; the query of the
\* second one is open and carries the second grouping's clause alone.
C25_Witness ==
    /\ tpc = "instances"
    /\ nRules = [NoRules EXCEPT !["tag"] = 2]
    /\ "describe_instances" \in requested
    /\ tag_filters = <<[Name |-> KeyTagOs, Values |-> <<"prod">>]>>
    /\ tagReturned = <<>>
    /\ Len(instance_ids) = 0
    /\ total = 1

(***************************************************************************)
(* Properties of the status aggregator, continued.                         *)
(***************************************************************************)
\* The task loop of get_patch_status_counts takes one task.
TaskStep == pc = "tasks" /\ tasksLeft' = tasksLeft - 1

\* C26: a task whose declared action is not exactly AWS-RunPatchBaseline is
\* passed over: it issues no request and changes neither count; the
\* invocation listing is only requested, and invocations and results are
\* only iterated, for a task of exactly that name.
C26_OnlyPatchBaselineTasksListed ==
    /\ [][(TaskStep /\ task' # "AWS-RunPatchBaseline") =>
            /\ pc' = "tasks"
            /\ success' = success
            /\ failure' = failure
            /\ lastRequest' = None
            /\ requested' = requested]_vars
    /\ [][(lastRequest' =
             "describe_maintenance_window_execution_task_invocations") =>
            task' = "AWS-RunPatchBaseline"]_vars
    /\ [](pc \in { "invs", "results" } => task = "AWS-RunPatchBaseline")

\* C26 witness: after a patch-baseline task whose result was counted, a
\* task named in lower case was passed over.
C26_Witness ==
    /\ pc = "tasks"
    /\ task = "aws-runpatchbaseline"
    /\ tasksLeft = 0
    /\ success = 1
    /\ failure = 0
    /\ lastRequest = None

(***************************************************************************)
(* Properties of the pre-run phase, continued.                             *)
(***************************************************************************)
\* C27: a listed window that the loop takes and passes adds exactly one row,
\* at the end of the list and with the current account's and the window's
\* fields, when it has a next execution time, that time is today and its
\* name starts with mmpatching in exactly that case; otherwise it adds
\* nothing.  Target resolution, and so a failure of it, only happens for a
\* window in scope.  Accounts are taken in configuration order.
C27_OneRowPerWindowInScope ==
    [][/\ (WindowStep /\ hpc' = "windows") =>
            IF ClaimedInScope(mw')
            THEN /\ Len(output_rows') = Len(output_rows) + 1
                 /\ SubSeq(output_rows', 1, Len(output_rows)) = output_rows
                 /\ LET row == output_rows'[Len(output_rows')] IN
                      /\ row.AccountId = accounts[acctIdx].account_id
                      /\ row.Region = accounts[acctIdx].region
                      /\ row.RoleName = accounts[acctIdx].role_name
                      /\ row.MaintenanceWindowId = mw'.WindowId
                      /\ row.MaintenanceWindowName = mw'.Name
                      /\ row.TargetInstanceCount \in Nat
            ELSE output_rows' = output_rows
       /\ (WindowStep /\ hpc' = "raised") => ClaimedInScope(mw')
       /\ ~WindowStep => output_rows' = output_rows
       /\ acctIdx' \in { acctIdx, acctIdx + 1 }]_vars

\* C27 witness: the first account had a window named with a capital M that
\* runs today and added nothing; the second account's window in scope added
\* the only row.
C27_Witness ==
    /\ hpc = "windows"
    /\ acctIdx = 2
    /\ mw.Name = <<"M", "m", "p", "a", "t", "c", "h", "i", "n", "g">>
    /\ mw.NextExecutionTime = "today"
    /\ nWindows = 2
    /\ Len(output_rows) = 1
    /\ output_rows[1].AccountId = accounts[2].account_id

(***************************************************************************)
(* Properties of the Status Aggregator, continued.                         *)
(***************************************************************************)
\* C28: results are not deduplicated by host: every per-host result of a
\* qualifying Install invocation whose status is Success or one of Failed,
\* TimedOut, Cancelled, ExecutionTimedOut, InProgress adds exactly one to
\* success + failure, whatever was counted before, and no other step changes
\* the sum.
C28_SumCountsEveryQualifyingResult ==
    [][/\ ResultStep =>
            (success' + failure') - (success + failure) =
                IF inst_status' \in ({"Success"} \cup ClaimedFailureStatuses)
                THEN 1 ELSE 0
       /\ (~ResultStep /\ pc # "start" /\ pc' # "start") =>
            success' + failure' = success + failure]_vars

(***************************************************************************)
(* Properties of the Today Filter, continued.                              *)
(***************************************************************************)
\* C29: within one run every window is tested against the same UTC day:
\* all calls of runs_today of the run use the same start_of_today, also
\* when the clock passes midnight between two calls.
C29_OneUtcDayPerRun == \A d1 \in daysUsed, d2 \in daysUsed : d1 = d2

(***************************************************************************)
(* Properties of the combined run.                                         *)
(***************************************************************************)
\* C30: the rows the post-run phase of a combined run re-checks are exactly
\* the rows the pre-run phase of that run collected and staged; when the
\* pre-run phase collected none, the post-run phase has no row to re-check.
C30_PostRunReadsThisRunsRows ==
    ppc \notin { "idle", "start", "read" } =>
        pre_patch_rows = StagedAll(output_rows)

====
